---- MODULE Spec2Model ----
(***************************************************************************)
(* Persona+ (astrbot_plugin_persona_plus): the interactive create/update   *)
(* flow with its wait sessions, the keyword auto-switch with the persona   *)
(* switch orchestrator, and the QQ profile-sync cache.                     *)
(*                                                                         *)
(* Two specifications share the variables:                                 *)
(*   SpecManage / FairSpecManage - management commands and wait sessions   *)
(*   SpecSwitch                  - on_message, _switch_persona, profile    *)
(*                                 sync                                    *)
(***************************************************************************)
EXTENDS Integers, Sequences, FiniteSets, TLC

VARIABLES
    personas,        \* persona_mgr: persona id -> [exists, system_prompt, begin_dialogs]
    sessions,        \* the wait sessions started so far (one per create/update command)
    cmdReply,        \* what the command handler that ran in the last step yielded
    require_admin_for_manage,
    config,          \* self.config, the configuration the plugin was constructed with
    manage_wait_timeout,
    keyword_mappings,
    keyword_switch_enabled,
    auto_switch_scope,
    auto_switch_announce,
    clear_context_on_switch,
    curr_cid,        \* conversation_manager: origin -> current conversation id (0: none)
    conversations,   \* conversation_manager: the conversations, by id
    conf_scoped,     \* astrbot_config_mgr.get_conf(umo): origin -> configuration
    conf_default,    \* astrbot_config_mgr.default_conf
    sync_nickname,
    sync_avatar,
    avatars,         \* persona ids whose avatar file exists in avatar_dir
    last_synced,     \* QQProfileSync._last_synced_persona: bot key -> persona id or None
    nickname,        \* the platform: bot key -> persona whose nickname the bot shows
    syncHist,        \* history: per bot key, the last maybe_sync_profile call
    switched,        \* history: per origin, the persona of the last successful switch
    lastMsg          \* history: what the most recent on_message did

manageVars == <<personas, sessions, cmdReply, require_admin_for_manage>>
configVars == <<config, manage_wait_timeout, keyword_mappings, keyword_switch_enabled, auto_switch_scope,
                auto_switch_announce, clear_context_on_switch, sync_nickname,
                sync_avatar, avatars>>
switchVars == <<configVars, curr_cid, conversations, conf_scoped, conf_default,
                last_synced, nickname, syncHist, switched, lastMsg>>
vars == <<manageVars, switchVars>>

(***************************************************************************)
(* Bounds and universes                                                    *)
(***************************************************************************)
MaxSessions == 1      \* create/update commands that start a wait session
MaxInvoke == 2        \* cap on the invocations of one session's callback

Origins == {"o1", "o2"}              \* unified_msg_origin values
PersonaIds == {"p1", "p2", "p3"}
ManageIds == {"p1", "p2"}            \* the ids the management commands name
BotKeys == {"qq:1", "qq:2"}          \* platform_id:self_id
Senders == {"u1", "u2", "u3"}
None == "None"

\* The wait timeout __init__ sets and _load_config falls back to.
DefaultTimeout == 120

\* The configuration of a specification that starts after the load, with the
\* loaded fields given directly: only _load_config reads self.config.
AnyConfig == [exists |-> TRUE, kind |-> "any"]

(***************************************************************************)
(* Persona content: texts, files, payloads                                 *)
(***************************************************************************)
\* A text is described by what Python makes of it:
\*   nonempty  - bool(text): it holds at least one character
\*   stripped  - text.strip() ("" when the text is blank)
\*   json      - json.loads(stripped): "invalid" (JSONDecodeError), "object"
\*               (a dict) or "other" (any other JSON value)
\*   system_prompt, begin_dialogs - the dict's fields ("" / <<>> when missing)
\*   dialogs_kind - the dict's begin_dialogs: "absent", a "list", or "null"
TextOf(nonempty, stripped, json, prompt, dialogs_kind, dialogs) ==
    [nonempty |-> nonempty, stripped |-> stripped, json |-> json,
     system_prompt |-> prompt, dialogs_kind |-> dialogs_kind,
     begin_dialogs |-> dialogs]
Text(nonempty, stripped, json, prompt, dialogs) ==
    TextOf(nonempty, stripped, json, prompt,
           IF dialogs = <<>> THEN "absent" ELSE "list", dialogs)

TxtEmpty == Text(FALSE, "", "invalid", "", <<>>)
TxtBlank == Text(TRUE, "", "invalid", "", <<>>)
TxtPlain == Text(TRUE, "hello", "invalid", "", <<>>)
TxtJsonOk == Text(TRUE, "{X,[u,a]}", "object", "X", <<"u", "a">>)
TxtJsonOdd == Text(TRUE, "{X,[hi]}", "object", "X", <<"hi">>)
TxtJsonNoPrompt == Text(TRUE, "{}", "object", "", <<>>)
TxtJsonNumber == Text(TRUE, "42", "other", "", <<>>)

Texts == {TxtEmpty, TxtBlank, TxtPlain, TxtJsonOk, TxtJsonOdd, TxtJsonNoPrompt,
          TxtJsonNumber}

\* A message component: a Comp.File (with whether get_file() returns a path,
\* the path's suffix and the file's text) or any other component.
Component(isfile, haspath, suffix, content) ==
    [isfile |-> isfile, haspath |-> haspath, suffix |-> suffix, content |-> content]

CompOther == Component(FALSE, FALSE, "", TxtEmpty)
CompNoPath == Component(TRUE, FALSE, "", TxtEmpty)
CompExe == Component(TRUE, TRUE, ".exe", TxtPlain)
CompTxt == Component(TRUE, TRUE, ".txt", TxtPlain)
CompJsonOdd == Component(TRUE, TRUE, ".json", TxtJsonOdd)
CompMdBlank == Component(TRUE, TRUE, ".md", TxtBlank)
CompMdEmpty == Component(TRUE, TRUE, ".md", TxtEmpty)

Components == {CompOther, CompNoPath, CompExe, CompTxt, CompJsonOdd, CompMdBlank,
               CompMdEmpty}

MaxComps == 1         \* components of a content message beside its text

CompSeqs == UNION {[1..n -> Components] : n \in 0..MaxComps}

\* The next events a user can send as persona content: a text, or a blank
\* text and a chain of components.
NextEvents ==
    {[umo |-> o, message_str |-> t, message |-> <<>>] :
        o \in Origins, t \in Texts \ {TxtEmpty, TxtBlank}}
        \cup {[umo |-> o, message_str |-> t, message |-> c] :
                    o \in Origins, t \in {TxtEmpty, TxtBlank}, c \in CompSeqs}

NoPayload == [system_prompt |-> "", begin_dialogs |-> <<>>]
Ok(v) == [ok |-> TRUE, val |-> v, err |-> ""]
Err(e) == [ok |-> FALSE, val |-> NoPayload, err |-> e]
OkText(t) == [ok |-> TRUE, val |-> t, err |-> ""]
ErrText(e) == [ok |-> FALSE, val |-> TxtEmpty, err |-> e]

SupportedSuffixes == {".txt", ".md", ".json"}

\* _read_file_component: the file's text, nothing (ok with an empty text), or
\* the ValueError for an unsupported extension.
ReadFileComponent(c) ==
    IF ~c.isfile THEN OkText(TxtEmpty)
    ELSE IF ~c.haspath THEN OkText(TxtEmpty)
    ELSE IF c.suffix \notin SupportedSuffixes THEN ErrText("unsupported_file")
    ELSE OkText(c.content)

RECURSIVE ScanComponents(_, _)
ScanComponents(chain, i) ==
    IF i > Len(chain) THEN ErrText("no_content")
    ELSE LET data == ReadFileComponent(chain[i])
         IN  IF ~data.ok THEN data
             ELSE IF data.val.nonempty THEN data
             ELSE ScanComponents(chain, i + 1)

\* _extract_persona_from_event
ExtractPersonaFromEvent(ev) ==
    IF ev.message_str.stripped # "" THEN OkText(ev.message_str)
    ELSE ScanComponents(ev.message, 1)

\* Mutant of ParsePersonaPayload: the begin_dialogs count is not checked.
ParsePersonaPayloadAnyCount(raw_text) ==
    IF raw_text.stripped = "" THEN Err("empty")
    ELSE IF raw_text.json = "invalid"
         THEN Ok([system_prompt |-> raw_text.stripped, begin_dialogs |-> <<>>])
    ELSE IF raw_text.json # "object" THEN Err("not_object")
    ELSE IF raw_text.system_prompt = "" THEN Err("no_system_prompt")
    ELSE IF raw_text.dialogs_kind = "null" THEN Err("type_error")
    ELSE Ok([system_prompt |-> raw_text.system_prompt,
             begin_dialogs |-> raw_text.begin_dialogs])

\* _parse_persona_payload.  A begin_dialogs of null passes the count check
\* (it is falsy) and the final list comprehension over it raises TypeError.
ParsePersonaPayload(raw_text) ==
    IF raw_text.stripped = "" THEN Err("empty")
    ELSE IF raw_text.json = "invalid"
         THEN Ok([system_prompt |-> raw_text.stripped, begin_dialogs |-> <<>>])
    ELSE IF raw_text.json # "object" THEN Err("not_object")
    ELSE IF raw_text.system_prompt = "" THEN Err("no_system_prompt")
    ELSE IF Len(raw_text.begin_dialogs) # 0 /\ Len(raw_text.begin_dialogs) % 2 # 0
         THEN Err("odd_begin_dialogs")
    ELSE IF raw_text.dialogs_kind = "null" THEN Err("type_error")
    ELSE Ok([system_prompt |-> raw_text.system_prompt,
             begin_dialogs |-> raw_text.begin_dialogs])

\* The first two statements of a waiter's try block.
ResolveContent(ev) ==
    LET raw == ExtractPersonaFromEvent(ev)
    IN  IF raw.ok THEN ParsePersonaPayload(raw.val) ELSE Err(raw.err)

(***************************************************************************)
(* Permission gate                                                         *)
(***************************************************************************)
\* A command event: its origin, its sender and the transport's admin flag
\* (u1 and u2 are listed admins, so the flag is varied for u3 alone).
CmdEvents ==
    {e \in [umo : Origins, sender : Senders, is_admin : BOOLEAN] :
        e.is_admin => e.sender = "u3"}

\* _collect_admin_ids
CollectAdminIds(umo) ==
    conf_default.admins_id
        \cup (IF conf_scoped[umo].exists THEN conf_scoped[umo].admins_id ELSE {})

\* _has_manage_permission
HasManagePermission(e) ==
    e.is_admin \/ e.sender \in CollectAdminIds(e.umo)

\* Mutant of HasPermission: force_admin is ignored.
HasPermissionFlagOnly(e, manage_operation, force_admin) ==
    LET need_admin == manage_operation /\ require_admin_for_manage
    IN  IF ~need_admin THEN TRUE ELSE HasManagePermission(e)

\* _has_permission
HasPermission(e, manage_operation, force_admin) ==
    LET need_admin == force_admin \/ (manage_operation /\ require_admin_for_manage)
    IN  IF ~need_admin THEN TRUE ELSE HasManagePermission(e)

(***************************************************************************)
(* Persona store (persona_mgr)                                             *)
(***************************************************************************)
NoPersona == [exists |-> FALSE, system_prompt |-> "", begin_dialogs |-> <<>>]
Stored(payload) ==
    [exists |-> TRUE, system_prompt |-> payload.system_prompt,
     begin_dialogs |-> payload.begin_dialogs]

(***************************************************************************)
(* Wait sessions                                                           *)
(***************************************************************************)
\* One wait session: the command that started it, the controller's future
\* (fut), the driver task wait_for_create / wait_for_update (drv), the
\* position of the one-shot callback create_waiter / update_waiter (cb), and
\* what was sent for it (out), with the store calls it issued.
NewSession(mode, umo, pid) ==
    [mode |-> mode, umo |-> umo, pid |-> pid,
     fut |-> "pending", drv |-> "waiting", cb |-> "none",
     invoked |-> 0, payload |-> NoPayload, err |-> "",
     out |-> <<>>, calls |-> 0, muts |-> 0]

Msg(chan, kind) == [chan |-> chan, kind |-> kind]
Reply(text, pid, stopped) == [text |-> text, pid |-> pid, stopped |-> stopped]
NoReply == Reply("", "", FALSE)

SessionIds == 1..Len(sessions)

\* cmd_help
CmdHelp(e) ==
    /\ cmdReply' = IF ~HasPermission(e, FALSE, FALSE) THEN Reply("denied", "", FALSE)
                    ELSE Reply("help", "", FALSE)
    /\ UNCHANGED <<personas, sessions, require_admin_for_manage>>
    /\ UNCHANGED switchVars

\* cmd_list
CmdList(e) ==
    /\ cmdReply' = IF ~HasPermission(e, FALSE, FALSE) THEN Reply("denied", "", FALSE)
                    ELSE IF \A p \in PersonaIds : ~personas[p].exists
                    THEN Reply("no_personas", "", FALSE)
                    ELSE Reply("list", "", FALSE)
    /\ UNCHANGED <<personas, sessions, require_admin_for_manage>>
    /\ UNCHANGED switchVars

\* cmd_view
CmdView(e, persona_id) ==
    /\ cmdReply' = IF ~HasPermission(e, FALSE, FALSE)
                    THEN Reply("denied", "", FALSE)
                    ELSE IF ~personas[persona_id].exists
                    THEN Reply("notfound", persona_id, FALSE)
                    ELSE Reply("view", persona_id, FALSE)
    /\ UNCHANGED <<personas, sessions, require_admin_for_manage>>
    /\ UNCHANGED switchVars

\* cmd_create, with at most cap sessions started
CmdCreateUpTo(cap, e, persona_id) ==
    /\ IF ~HasPermission(e, TRUE, FALSE)
       THEN /\ cmdReply' = Reply("denied", "", FALSE)
            /\ UNCHANGED sessions
       ELSE IF personas[persona_id].exists
       THEN /\ cmdReply' = Reply("exists", persona_id, FALSE)
            /\ UNCHANGED sessions
       ELSE /\ Len(sessions) < cap
            /\ cmdReply' = Reply("prompt", "", TRUE)
            /\ sessions' = Append(sessions, NewSession("create", e.umo, persona_id))
    /\ UNCHANGED <<personas, require_admin_for_manage>>
    /\ UNCHANGED switchVars

\* cmd_create
CmdCreate(e, persona_id) == CmdCreateUpTo(MaxSessions, e, persona_id)

\* Mutant of CmdUpdate: get_persona is not called before the prompt.
CmdUpdateUnchecked(e, persona_id) ==
    /\ IF ~HasPermission(e, TRUE, FALSE)
       THEN /\ cmdReply' = Reply("denied", "", FALSE)
            /\ UNCHANGED sessions
       ELSE /\ Len(sessions) < MaxSessions
            /\ cmdReply' = Reply("prompt", "", TRUE)
            /\ sessions' = Append(sessions, NewSession("update", e.umo, persona_id))
    /\ UNCHANGED <<personas, require_admin_for_manage>>
    /\ UNCHANGED switchVars

\* cmd_update, with at most cap sessions started
CmdUpdateUpTo(cap, e, persona_id) ==
    /\ IF ~HasPermission(e, TRUE, FALSE)
       THEN /\ cmdReply' = Reply("denied", "", FALSE)
            /\ UNCHANGED sessions
       ELSE IF ~personas[persona_id].exists
       THEN /\ cmdReply' = Reply("notfound", persona_id, FALSE)
            /\ UNCHANGED sessions
       ELSE /\ Len(sessions) < cap
            /\ cmdReply' = Reply("prompt", "", TRUE)
            /\ sessions' = Append(sessions, NewSession("update", e.umo, persona_id))
    /\ UNCHANGED <<personas, require_admin_for_manage>>
    /\ UNCHANGED switchVars

\* cmd_update
CmdUpdate(e, persona_id) == CmdUpdateUpTo(MaxSessions, e, persona_id)

\* cmd_delete
CmdDelete(e, persona_id) ==
    /\ IF ~HasPermission(e, TRUE, TRUE)
       THEN /\ cmdReply' = Reply("denied", "", FALSE)
            /\ UNCHANGED personas
       ELSE IF ~personas[persona_id].exists
       THEN /\ cmdReply' = Reply("notfound", persona_id, FALSE)
            /\ UNCHANGED personas
       ELSE /\ cmdReply' = Reply("deleted", persona_id, FALSE)
            /\ personas' = [personas EXCEPT ![persona_id] = NoPersona]
    /\ UNCHANGED <<sessions, require_admin_for_manage>>
    /\ UNCHANGED switchVars

\* The session waiter hands an event of the session's origin to the callback
\* while the session's future is not done and no invocation is running.
Deliverable(s, ev) ==
    /\ ev.umo = sessions[s].umo
    /\ sessions[s].fut = "pending"
    /\ sessions[s].cb \in {"none", "done"}

\* create_waiter / update_waiter, the first two statements of the try block:
\* the callback is invoked with the next event and resolves the content.
WaiterStart(s, ev) ==
    /\ s \in SessionIds
    /\ Deliverable(s, ev)
    /\ sessions[s].invoked < MaxInvoke
    /\ LET r == ResolveContent(ev)
       IN  sessions' = [sessions EXCEPT
                ![s].invoked = @ + 1,
                ![s].payload = r.val,
                ![s].err = r.err,
                ![s].cb = IF ~r.ok THEN "reply"
                          ELSE IF sessions[s].mode = "create" THEN "check"
                          ELSE "apply"]
    /\ cmdReply' = NoReply
    /\ UNCHANGED <<personas, require_admin_for_manage>>
    /\ UNCHANGED switchVars

\* _create_persona: get_persona, and the ValueError when the id exists.
WaiterCheck(s) ==
    /\ s \in SessionIds
    /\ sessions[s].cb = "check"
    /\ sessions' = [sessions EXCEPT
            ![s].err = IF personas[sessions[s].pid].exists THEN "exists" ELSE "",
            ![s].cb = IF personas[sessions[s].pid].exists THEN "reply" ELSE "apply"]
    /\ cmdReply' = NoReply
    /\ UNCHANGED <<personas, require_admin_for_manage>>
    /\ UNCHANGED switchVars

\* Mutant of WaiterApply: the persona id is the one of the first session, as
\* if the callbacks shared it instead of closing over their own.
WaiterApplySharedPid(s, store_ok) ==
    /\ s \in SessionIds
    /\ sessions[s].cb = "apply"
    /\ LET pid == sessions[1].pid
           held == personas[pid].exists
           fails == IF ~store_ok THEN "store_error"
                    ELSE IF sessions[s].mode = "create" /\ held THEN "exists"
                    ELSE IF sessions[s].mode = "update" /\ ~held THEN "notfound"
                    ELSE ""
       IN  /\ personas' = IF fails = ""
                          THEN [personas EXCEPT ![pid] = Stored(sessions[s].payload)]
                          ELSE personas
           /\ sessions' = [sessions EXCEPT
                    ![s].calls = @ + 1,
                    ![s].muts = IF fails = "" THEN @ + 1 ELSE @,
                    ![s].err = fails,
                    ![s].payload = NoPayload,
                    ![s].cb = "reply"]
    /\ cmdReply' = NoReply
    /\ UNCHANGED require_admin_for_manage
    /\ UNCHANGED switchVars

\* persona_mgr.create_persona / persona_mgr.update_persona. The store rejects
\* a create of an id it holds and an update of an id it does not hold
\* (ValueError); store_ok = FALSE is any other failure of the store.
WaiterApply(s, store_ok) ==
    /\ s \in SessionIds
    /\ sessions[s].cb = "apply"
    /\ LET pid == sessions[s].pid
           held == personas[pid].exists
           fails == IF ~store_ok THEN "store_error"
                    ELSE IF sessions[s].mode = "create" /\ held THEN "exists"
                    ELSE IF sessions[s].mode = "update" /\ ~held THEN "notfound"
                    ELSE ""
       IN  /\ personas' = IF fails = ""
                          THEN [personas EXCEPT ![pid] = Stored(sessions[s].payload)]
                          ELSE personas
           /\ sessions' = [sessions EXCEPT
                    ![s].calls = @ + 1,
                    ![s].muts = IF fails = "" THEN @ + 1 ELSE @,
                    ![s].err = fails,
                    ![s].payload = NoPayload,
                    ![s].cb = "reply"]
    /\ cmdReply' = NoReply
    /\ UNCHANGED require_admin_for_manage
    /\ UNCHANGED switchVars

\* Mutant of WaiterReply: the outcome is sent with event.send, on the command
\* event's channel.
WaiterReplyOnCommandEvent(s) ==
    /\ s \in SessionIds
    /\ sessions[s].cb = "reply"
    /\ sessions' = [sessions EXCEPT
            ![s].out = Append(@, Msg("cmd", IF sessions[s].err = "" THEN "success"
                                             ELSE "failure")),
            ![s].cb = "finally"]
    /\ cmdReply' = NoReply
    /\ UNCHANGED <<personas, require_admin_for_manage>>
    /\ UNCHANGED switchVars

\* The except / else branches of the waiter: next_event.send(...).
WaiterReply(s) ==
    /\ s \in SessionIds
    /\ sessions[s].cb = "reply"
    /\ sessions' = [sessions EXCEPT
            ![s].out = Append(@, Msg("next", IF sessions[s].err = "" THEN "success"
                                              ELSE "failure")),
            ![s].cb = "finally"]
    /\ cmdReply' = NoReply
    /\ UNCHANGED <<personas, require_admin_for_manage>>
    /\ UNCHANGED switchVars

\* Mutant of WaiterStop: the waiter returns without controller.stop().
WaiterReturnsWithoutStop(s) ==
    /\ s \in SessionIds
    /\ sessions[s].cb = "finally"
    /\ sessions' = [sessions EXCEPT ![s].cb = "done"]
    /\ cmdReply' = NoReply
    /\ UNCHANGED <<personas, require_admin_for_manage>>
    /\ UNCHANGED switchVars

\* finally: controller.stop() - completes the future unless it is done.
WaiterStop(s) ==
    /\ s \in SessionIds
    /\ sessions[s].cb = "finally"
    /\ sessions' = [sessions EXCEPT
            ![s].fut = IF @ = "pending" THEN "result" ELSE @,
            ![s].cb = "done"]
    /\ cmdReply' = NoReply
    /\ UNCHANGED <<personas, require_admin_for_manage>>
    /\ UNCHANGED switchVars

\* The session's deadline (session_waiter(timeout=manage_wait_timeout)): when
\* it passes, the controller completes the future with TimeoutError unless the
\* future is done.  Nothing disarms it while the callback runs.
Holding(s) ==
    /\ s \in SessionIds
    /\ sessions[s].fut = "pending"
    /\ sessions' = [sessions EXCEPT ![s].fut = "timeout"]
    /\ cmdReply' = NoReply
    /\ UNCHANGED <<personas, require_admin_for_manage>>
    /\ UNCHANGED switchVars

\* Mutant of WaitFor: `except Exception` comes first and takes the
\* TimeoutError too.
WaitForGenericHandlerFirst(s) ==
    /\ s \in SessionIds
    /\ sessions[s].drv = "waiting"
    /\ sessions[s].fut # "pending"
    /\ sessions' = [sessions EXCEPT
            ![s].drv = "done",
            ![s].out = IF sessions[s].fut = "result" THEN @
                       ELSE Append(@, Msg("cmd", "flow_error"))]
    /\ cmdReply' = NoReply
    /\ UNCHANGED <<personas, require_admin_for_manage>>
    /\ UNCHANGED switchVars

\* wait_for_create / wait_for_update: the driver task resumes when the future
\* is done.
WaitFor(s) ==
    /\ s \in SessionIds
    /\ sessions[s].drv = "waiting"
    /\ sessions[s].fut # "pending"
    /\ sessions' = [sessions EXCEPT
            ![s].drv = "done",
            ![s].out = CASE sessions[s].fut = "timeout" -> Append(@, Msg("cmd", "timeout"))
                         [] sessions[s].fut = "error" -> Append(@, Msg("cmd", "flow_error"))
                         [] OTHER -> @]
    /\ cmdReply' = NoReply
    /\ UNCHANGED <<personas, require_admin_for_manage>>
    /\ UNCHANGED switchVars

(***************************************************************************)
(* Specification of the management commands and their wait sessions        *)
(***************************************************************************)
DefaultPersona == [exists |-> TRUE, system_prompt |-> "X", begin_dialogs |-> <<"u", "a">>]
Conf(exists, admins, personality, saved) ==
    [exists |-> exists, admins_id |-> admins, default_personality |-> personality,
     saved |-> saved]

SwitchIdle ==
    /\ keyword_mappings = <<>>
    /\ keyword_switch_enabled = TRUE
    /\ auto_switch_scope = "conversation"
    /\ auto_switch_announce = FALSE
    /\ clear_context_on_switch = FALSE
    /\ curr_cid = [o \in Origins |-> 0]
    /\ conversations = <<>>
    /\ sync_nickname = TRUE
    /\ sync_avatar = FALSE
    /\ avatars = {}
    /\ last_synced = <<>>
    /\ nickname = <<>>
    /\ syncHist = <<>>
    /\ switched = <<>>
    /\ lastMsg = <<>>

InitManage ==
    /\ personas = [p \in PersonaIds |-> IF p = "p1" THEN DefaultPersona ELSE NoPersona]
    /\ sessions = <<>>
    /\ cmdReply = NoReply
    /\ require_admin_for_manage \in BOOLEAN
    /\ config = AnyConfig
    /\ manage_wait_timeout = DefaultTimeout
    /\ conf_default = Conf(TRUE, {"u1"}, None, None)
    /\ conf_scoped = [o \in Origins |-> IF o = "o1" THEN Conf(TRUE, {"u2"}, None, None)
                                        ELSE Conf(FALSE, {}, None, None)]
    /\ SwitchIdle

NextManage ==
    \/ \E e \in CmdEvents, p \in ManageIds : CmdCreate(e, p)
    \/ \E e \in CmdEvents, p \in ManageIds : CmdUpdate(e, p)
    \/ \E e \in CmdEvents, p \in ManageIds : CmdDelete(e, p)
    \/ \E s \in 1..MaxSessions, ev \in NextEvents : WaiterStart(s, ev)
    \/ \E s \in 1..MaxSessions : WaiterCheck(s)
    \/ \E s \in 1..MaxSessions, ok \in BOOLEAN : WaiterApply(s, ok)
    \/ \E s \in 1..MaxSessions : WaiterReply(s)
    \/ \E s \in 1..MaxSessions : WaiterStop(s)
    \/ \E s \in 1..MaxSessions : Holding(s)
    \/ \E s \in 1..MaxSessions : WaitFor(s)

SpecManage == InitManage /\ [][NextManage]_vars

\* SpecGate: every command, from every caller; the content of a session is a
\* plain text or a JSON object with an odd begin_dialogs.
GateNextEvents ==
    {ev \in NextEvents : ev.message_str \in {TxtPlain, TxtJsonOdd} /\ ev.message = <<>>}

NextGate ==
    \/ \E e \in CmdEvents : CmdHelp(e)
    \/ \E e \in CmdEvents : CmdList(e)
    \/ \E e \in CmdEvents, p \in ManageIds : CmdView(e, p)
    \/ \E e \in CmdEvents, p \in ManageIds : CmdCreate(e, p)
    \/ \E e \in CmdEvents, p \in ManageIds : CmdUpdate(e, p)
    \/ \E e \in CmdEvents, p \in ManageIds : CmdDelete(e, p)
    \/ \E s \in 1..MaxSessions, ev \in GateNextEvents : WaiterStart(s, ev)
    \/ \E s \in 1..MaxSessions : WaiterCheck(s)
    \/ \E s \in 1..MaxSessions : WaiterApply(s, TRUE)
    \/ \E s \in 1..MaxSessions : WaiterReply(s)
    \/ \E s \in 1..MaxSessions : WaiterStop(s)
    \/ \E s \in 1..MaxSessions : Holding(s)
    \/ \E s \in 1..MaxSessions : WaitFor(s)

SpecGate == InitManage /\ [][NextGate]_vars

\* SpecParse: the content of a session is any of the texts below.
MaxDialogs == 4       \* entries of a begin_dialogs list

Dialogs(n) == [i \in 1..n |-> IF i % 2 = 1 THEN "u" ELSE "a"]

\* JSON objects: with or without a system_prompt, and with begin_dialogs
\* absent, null or a list of 0..MaxDialogs entries.
JsonObjects ==
    {TextOf(TRUE, "{..}", "object", pr, k, <<>>) :
        pr \in {"", "X"}, k \in {"absent", "null"}}
        \cup {TextOf(TRUE, "{..}", "object", pr, "list", Dialogs(n)) :
                    pr \in {"", "X"}, n \in 0..MaxDialogs}

\* JSON values that are no object: a number, a string, an array, a boolean,
\* null.
JsonOthers ==
    {Text(TRUE, t, "other", "", <<>>) : t \in {"42", "\"hi\"", "[1,2]", "true", "null"}}

ParseTexts == JsonObjects \cup JsonOthers \cup {TxtPlain}

ParseEvents ==
    {[umo |-> o, message_str |-> t, message |-> <<>>] : o \in Origins, t \in ParseTexts}

NextParse ==
    \/ \E e \in CmdEvents, p \in ManageIds : CmdCreate(e, p)
    \/ \E e \in CmdEvents, p \in ManageIds : CmdUpdate(e, p)
    \/ \E s \in 1..MaxSessions, ev \in ParseEvents : WaiterStart(s, ev)
    \/ \E s \in 1..MaxSessions : WaiterCheck(s)
    \/ \E s \in 1..MaxSessions : WaiterApply(s, TRUE)
    \/ \E s \in 1..MaxSessions : WaiterReply(s)
    \/ \E s \in 1..MaxSessions : WaiterStop(s)
    \/ \E s \in 1..MaxSessions : Holding(s)
    \/ \E s \in 1..MaxSessions : WaitFor(s)

SpecParse == InitManage /\ [][NextParse]_vars

(***************************************************************************)
(* Keyword rules and message texts                                         *)
(***************************************************************************)
\* Keywords and message texts are sequences of characters.
Chars == {"a", "A", "b"}
MaxTextLen == 2       \* characters of a message text
MaxRules == 2         \* rules of a keyword_mappings list

MsgTexts == UNION {[1..n -> Chars] : n \in 0..MaxTextLen}

\* str.lower()
LowerChar(c) == IF c = "A" THEN "a" ELSE c
Lower(str) == [i \in 1..Len(str) |-> LowerChar(str[i])]

\* `keyword in text`
Contains(text, keyword) ==
    \E i \in 0..Len(text) :
        /\ i + Len(keyword) <= Len(text)
        /\ \A j \in 1..Len(keyword) : text[i + j] = keyword[j]

\* KeywordMapping; _parse_mapping_entry builds every rule with the defaults
\* case_sensitive = False and reply_template = "".
KeywordMapping(keyword, persona_id) ==
    [keyword |-> keyword, persona_id |-> persona_id, case_sensitive |-> FALSE,
     reply_template |-> ""]

\* KeywordMapping.matches
Matches(mapping, text) ==
    IF ~mapping.case_sensitive
    THEN Contains(Lower(text), Lower(mapping.keyword))
    ELSE Contains(text, mapping.keyword)

NoAnnounce == [kind |-> "none", template |-> "", persona_id |-> ""]

\* Mutant of Announce: the generic message is chosen whatever
\* auto_switch_announce is.
AnnounceAlways(mapping) ==
    IF mapping.reply_template # ""
    THEN [kind |-> "template", template |-> mapping.reply_template,
          persona_id |-> mapping.persona_id]
    ELSE [kind |-> "generic", template |-> "", persona_id |-> mapping.persona_id]

\* on_message: the announcement of a matched rule.
Announce(mapping) ==
    IF mapping.reply_template # ""
    THEN [kind |-> "template", template |-> mapping.reply_template,
          persona_id |-> mapping.persona_id]
    ELSE IF auto_switch_announce
    THEN [kind |-> "generic", template |-> "", persona_id |-> mapping.persona_id]
    ELSE NoAnnounce

(***************************************************************************)
(* Profile sync (QQProfileSync)                                            *)
(***************************************************************************)
\* What one handler run has done so far: the collaborators' state as the run
\* left it, and the record of the run (the history variables are set from it).
\* The record of the last maybe_sync_profile call that reached the cache check
\* for a bot key: its persona, the cache entry it found (cache_before),
\* whether it went past the cache check (attempted), whether it called a
\* profile API (pushed), whether a call succeeded (ok); of the call before it
\* for the same bot key: whether it was for the same persona (prev_same) and,
\* if so, whether it had a successful push (prev_ok) or went past the cache
\* check without one (prev_failed); and the personas of all successful pushes
\* for the bot key so far (ever_ok).
NoCall == [persona_id |-> None, cache_before |-> None, attempted |-> FALSE,
           pushed |-> FALSE, ok |-> FALSE, prev_same |-> FALSE, prev_ok |-> FALSE,
           prev_failed |-> FALSE, ever_ok |-> {}]
SyncCall(before, persona_id, cache_before, attempted, pushed, ok) ==
    [persona_id |-> persona_id, cache_before |-> cache_before,
     attempted |-> attempted, pushed |-> pushed, ok |-> ok,
     prev_same |-> before.persona_id = persona_id,
     prev_ok |-> before.persona_id = persona_id /\ before.ok,
     prev_failed |-> before.persona_id = persona_id /\ before.attempted /\ ~before.ok,
     ever_ok |-> before.ever_ok \cup (IF ok THEN {persona_id} ELSE {})]

\* Mutant of AlreadySynced: no cache check.
NeverSynced(cache, persona_id, force) == FALSE

\* maybe_sync_profile: `not force and self._last_synced_persona.get(bot_key)
\* == persona_id`
AlreadySynced(cache, persona_id, force) == ~force /\ cache = persona_id

\* Mutant of CacheAfter: the cache is set whatever the pushes did.
CacheAlways(cache, persona_id, nickname_applied, avatar_synced) == persona_id

\* maybe_sync_profile: `if nickname_applied or avatar_synced:
\* self._last_synced_persona[bot_key] = persona_id`
CacheAfter(cache, persona_id, nickname_applied, avatar_synced) ==
    IF nickname_applied \/ avatar_synced THEN persona_id ELSE cache

\* Mutant of MaybeSyncProfile: the error of a push is not caught.
MaybeSyncProfileRaising(w, e, persona_id, force) ==
    IF ~e.is_qq THEN w
    ELSE IF ~((sync_nickname \/ sync_avatar) \/ force) THEN w
    ELSE
    LET do_nickname == force \/ sync_nickname
        do_avatar == force \/ sync_avatar
        bot_key == e.bot_key
        cache == w.last_synced[bot_key]
    IN  IF ~(do_nickname \/ do_avatar) THEN w
        ELSE IF AlreadySynced(cache, persona_id, force)
        THEN [w EXCEPT !.syncHist[bot_key] =
                            SyncCall(@, persona_id, cache, FALSE, FALSE, FALSE)]
        ELSE
        LET nick_called == do_nickname /\ e.has_set_qq_profile
            nickname_applied == nick_called /\ e.nick_ok
            avatar_called == do_avatar /\ persona_id \in avatars /\ e.has_set_qq_avatar
            avatar_synced == avatar_called /\ e.avatar_ok
            n == (IF nick_called THEN 1 ELSE 0) + (IF avatar_called THEN 1 ELSE 0)
        IN  [w EXCEPT
                !.last_synced[bot_key] =
                    CacheAfter(@, persona_id, nickname_applied, avatar_synced),
                !.nickname[bot_key] = IF nickname_applied THEN persona_id ELSE @,
                !.pushes = @ + n,
                !.raised = (nick_called /\ ~e.nick_ok) \/ (avatar_called /\ ~e.avatar_ok),
                !.syncHist[bot_key] =
                    SyncCall(@, persona_id, cache, TRUE, n > 0,
                             nickname_applied \/ avatar_synced)]

\* maybe_sync_profile
MaybeSyncProfile(w, e, persona_id, force) ==
    IF ~e.is_qq THEN w
    ELSE IF ~((sync_nickname \/ sync_avatar) \/ force) THEN w
    ELSE
    LET do_nickname == force \/ sync_nickname
        do_avatar == force \/ sync_avatar
        bot_key == e.bot_key
        cache == w.last_synced[bot_key]
    IN  IF ~(do_nickname \/ do_avatar) THEN w
        ELSE IF AlreadySynced(cache, persona_id, force)
        THEN [w EXCEPT !.syncHist[bot_key] =
                            SyncCall(@, persona_id, cache, FALSE, FALSE, FALSE)]
        ELSE
        LET nick_called == do_nickname /\ e.has_set_qq_profile
            nickname_applied == nick_called /\ e.nick_ok
            avatar_called == do_avatar /\ persona_id \in avatars /\ e.has_set_qq_avatar
            avatar_synced == avatar_called /\ e.avatar_ok
            n == (IF nick_called THEN 1 ELSE 0) + (IF avatar_called THEN 1 ELSE 0)
        IN  [w EXCEPT
                !.last_synced[bot_key] =
                    CacheAfter(@, persona_id, nickname_applied, avatar_synced),
                !.nickname[bot_key] = IF nickname_applied THEN persona_id ELSE @,
                !.pushes = @ + n,
                !.syncHist[bot_key] =
                    SyncCall(@, persona_id, cache, TRUE, n > 0,
                             nickname_applied \/ avatar_synced)]

(***************************************************************************)
(* Persona switch orchestrator                                             *)
(***************************************************************************)
\* conversation_manager.new_conversation: the new conversation becomes the
\* origin's current one.
NewConversation(w, umo, persona_id) ==
    [w EXCEPT !.conversations = Append(@, [umo |-> umo, persona_id |-> persona_id,
                                            history |-> "empty", by_switch |-> TRUE]),
              !.curr_cid[umo] = Len(w.conversations) + 1,
              !.created = @ + 1]

\* conversation_manager.update_conversation: history = None keeps the history.
UpdateConversation(w, cid, persona_id, history_reset) ==
    [w EXCEPT !.conversations[cid].persona_id = persona_id,
              !.conversations[cid].history = IF history_reset THEN "empty" ELSE @,
              !.updated = @ + 1]

\* Mutant of SetDefaultPersonality: the setting is written, save_config() is
\* not called.
SetDefaultPersonalityUnsaved(conf, persona_id) ==
    [conf EXCEPT !.default_personality = persona_id]

\* provider_settings["default_personality"] = persona_id; config.save_config()
SetDefaultPersonality(conf, persona_id) ==
    [conf EXCEPT !.default_personality = persona_id, !.saved = persona_id]

\* Mutant of SwitchStorage: scope `conversation` opens a new conversation on
\* every switch.
SwitchStorageAlwaysNew(w, umo, persona_id) ==
    IF auto_switch_scope = "conversation" THEN NewConversation(w, umo, persona_id)
    ELSE w

\* _switch_persona, the scope branches.
SwitchStorage(w, umo, persona_id) ==
    LET history_reset == clear_context_on_switch
        cid == w.curr_cid[umo]
        also_conversation(v) ==
            IF cid # 0 THEN UpdateConversation(v, cid, persona_id, history_reset) ELSE v
    IN  CASE auto_switch_scope = "conversation" ->
                IF cid = 0 THEN NewConversation(w, umo, persona_id)
                ELSE UpdateConversation(w, cid, persona_id, history_reset)
          [] auto_switch_scope = "session" ->
                also_conversation(
                    IF w.conf_scoped[umo].exists
                    THEN [w EXCEPT !.conf_scoped[umo] =
                                SetDefaultPersonality(@, persona_id)]
                    ELSE w)
          [] auto_switch_scope = "global" ->
                also_conversation(
                    [w EXCEPT !.conf_default = SetDefaultPersonality(@, persona_id)])
          [] OTHER -> w

\* Mutant of SwitchPersona: get_persona is not called first.
SwitchPersonaUnchecked(w, e, persona_id, announce) ==
    LET called == [w EXCEPT !.calls = Append(@, [persona_id |-> persona_id,
                                                  announce |-> announce])]
        stored == SwitchStorage(called, e.umo, persona_id)
        synced == MaybeSyncProfile(stored, e, persona_id, FALSE)
    IN  [synced EXCEPT !.switched[e.umo] = persona_id, !.reply = announce]

\* _switch_persona
SwitchPersona(w, e, persona_id, announce) ==
    LET called == [w EXCEPT !.calls = Append(@, [persona_id |-> persona_id,
                                                  announce |-> announce])]
    IN  IF ~personas[persona_id].exists
        THEN [called EXCEPT !.raised = TRUE]
        ELSE LET stored == SwitchStorage(called, e.umo, persona_id)
                 synced == MaybeSyncProfile(stored, e, persona_id, FALSE)
             IN  [synced EXCEPT !.switched[e.umo] = persona_id,
                                !.reply = announce]

(***************************************************************************)
(* Keyword auto-switch (on_message)                                        *)
(***************************************************************************)
RECURSIVE ScanMappings(_, _, _)

\* Mutant of AfterSwitch: no `break`, the loop goes on to the next rule.
AfterSwitchNoBreak(w, e, i) == ScanMappings(w, e, i + 1)

\* on_message: `break` after the first matching rule.
AfterSwitch(w, e, i) == w

\* on_message: the loop over keyword_mappings from rule i on.
ScanMappings(w, e, i) ==
    IF i > Len(keyword_mappings) THEN w
    ELSE LET mapping == keyword_mappings[i]
             seen == [w EXCEPT !.evaluated = i]
         IN  IF Matches(mapping, e.text)
             THEN LET after == SwitchPersona(seen, e, mapping.persona_id,
                                             Announce(mapping))
                  IN  IF after.raised THEN after ELSE AfterSwitch(after, e, i)
             ELSE ScanMappings(seen, e, i + 1)

\* The state a handler run starts from.
Run0 ==
    [curr_cid |-> curr_cid, conversations |-> conversations,
     conf_scoped |-> conf_scoped, conf_default |-> conf_default,
     last_synced |-> last_synced, nickname |-> nickname, syncHist |-> syncHist,
     switched |-> switched,
     calls |-> <<>>, evaluated |-> 0, raised |-> FALSE, reply |-> NoAnnounce,
     pushes |-> 0, created |-> 0, updated |-> 0]

\* on_message
OnMessage(e) ==
    \E w \in {IF e.text = <<>> \/ ~keyword_switch_enabled \/ keyword_mappings = <<>>
              THEN Run0
              ELSE ScanMappings(Run0, e, 1)} :
        /\ curr_cid' = w.curr_cid
        /\ conversations' = w.conversations
        /\ conf_scoped' = w.conf_scoped
        /\ conf_default' = w.conf_default
        /\ last_synced' = w.last_synced
        /\ nickname' = w.nickname
        /\ syncHist' = w.syncHist
        /\ switched' = w.switched
        /\ lastMsg' = [umo |-> e.umo, text |-> e.text, calls |-> w.calls,
                       evaluated |-> w.evaluated, raised |-> w.raised,
                       reply |-> w.reply, pushes |-> w.pushes,
                       created |-> w.created, updated |-> w.updated,
                       had_cid |-> curr_cid[e.umo]]
        /\ cmdReply' = NoReply
        /\ UNCHANGED <<personas, sessions, require_admin_for_manage>>
        /\ UNCHANGED configVars

(***************************************************************************)
(* Specifications of the keyword switch                                    *)
(***************************************************************************)
\* An inbound message: its origin and text, whether it is an
\* AiocqhttpMessageEvent, and for one that is: the bot identity, whether the
\* bot client has set_qq_profile / set_qq_avatar, and whether a call of each
\* succeeds (an API the client lacks is never called, so its outcome is fixed).
Event(umo, text, is_qq, bot_key, has_profile, has_avatar, nick_ok, avatar_ok) ==
    [umo |-> umo, text |-> text, is_qq |-> is_qq, bot_key |-> bot_key,
     has_set_qq_profile |-> has_profile, has_set_qq_avatar |-> has_avatar,
     nick_ok |-> nick_ok, avatar_ok |-> avatar_ok]

PlainEvents ==
    {Event(o, t, FALSE, "qq:1", FALSE, FALSE, FALSE, FALSE) :
        o \in Origins, t \in MsgTexts}

QQEvents(origins, texts, keys) ==
    {x \in {Event(o, t, TRUE, k, hp, ha, nk, ak) :
                o \in origins, t \in texts, k \in keys,
                hp \in BOOLEAN, ha \in BOOLEAN, nk \in BOOLEAN, ak \in BOOLEAN} :
        /\ x.nick_ok => x.has_set_qq_profile
        /\ x.avatar_ok => x.has_set_qq_avatar}

NoMsg == [umo |-> "", text |-> <<>>, calls |-> <<>>, evaluated |-> 0,
          raised |-> FALSE, reply |-> NoAnnounce, pushes |-> 0, created |-> 0,
          updated |-> 0, had_cid |-> 0]

ManageIdle ==
    /\ personas = [p \in PersonaIds |-> IF p = "p3" THEN NoPersona ELSE DefaultPersona]
    /\ sessions = <<>>
    /\ cmdReply = NoReply
    /\ require_admin_for_manage = FALSE
    /\ config = AnyConfig
    /\ manage_wait_timeout = DefaultTimeout

\* The scoped configurations: o1 has one; o2 has none, or has one.
ScopedOnlyO1 ==
    [o \in Origins |-> IF o = "o1" THEN Conf(TRUE, {"u2"}, None, None)
                       ELSE Conf(FALSE, {}, None, None)]
ScopedBoth == [o \in Origins |-> Conf(TRUE, {"u2"}, None, None)]

\* Origin o1 has no conversation yet; o2 has one the framework created, with
\* some history and no persona.
CollaboratorsInit ==
    /\ curr_cid = [o \in Origins |-> IF o = "o2" THEN 1 ELSE 0]
    /\ conversations = <<[umo |-> "o2", persona_id |-> None, history |-> "some",
                          by_switch |-> FALSE]>>
    /\ conf_default = Conf(TRUE, {"u1"}, None, None)
    /\ last_synced = [k \in BotKeys |-> None]
    /\ nickname = [k \in BotKeys |-> None]
    /\ syncHist = [k \in BotKeys |-> NoCall]
    /\ switched = [o \in Origins |-> None]
    /\ lastMsg = NoMsg

FixedMappings ==
    <<KeywordMapping(<<"a", "b">>, "p3"), KeywordMapping(<<"a">>, "p1"),
      KeywordMapping(<<"b">>, "p2")>>

\* SpecSwitch: the switch in every scope.
InitSwitch ==
    /\ ManageIdle
    /\ CollaboratorsInit
    /\ conf_scoped \in {ScopedOnlyO1, ScopedBoth}
    /\ keyword_mappings = FixedMappings
    /\ keyword_switch_enabled = TRUE
    /\ auto_switch_scope \in {"conversation", "session", "global"}
    /\ auto_switch_announce \in BOOLEAN
    /\ clear_context_on_switch \in BOOLEAN
    /\ sync_nickname = TRUE
    /\ sync_avatar = FALSE
    /\ avatars = {}

\* Texts for each outcome of FixedMappings: no rule, p1 (by lower-casing), p2,
\* and p3, which the store does not hold.
SwitchTexts == {<<>>, <<"b", "b">>, <<"A">>, <<"b">>, <<"A", "b">>}

SwitchEvents ==
    {x \in PlainEvents : x.text \in SwitchTexts}
        \cup {x \in QQEvents(Origins, SwitchTexts, {"qq:1"}) :
                    x.has_set_qq_profile /\ ~x.has_set_qq_avatar
                    /\ x.nick_ok /\ ~x.avatar_ok}

NextSwitch == \E e \in SwitchEvents : OnMessage(e)

SpecSwitch == InitSwitch /\ [][NextSwitch]_vars

\* SpecSync: the profile sync under every sync configuration.
InitSync ==
    /\ ManageIdle
    /\ CollaboratorsInit
    /\ conf_scoped = ScopedOnlyO1
    /\ keyword_mappings = FixedMappings
    /\ keyword_switch_enabled = TRUE
    /\ auto_switch_scope = "conversation"
    /\ auto_switch_announce = FALSE
    /\ clear_context_on_switch = FALSE
    /\ sync_nickname \in BOOLEAN
    /\ sync_avatar \in BOOLEAN
    /\ avatars \in {{}, {"p1"}}

SyncTexts == {<<"a">>, <<"b">>}

SyncEvents ==
    QQEvents({"o1"}, SyncTexts, BotKeys)
        \cup {x \in PlainEvents : x.umo = "o1" /\ x.text \in SyncTexts}

NextSync == \E e \in SyncEvents : OnMessage(e)

SpecSync == InitSync /\ [][NextSync]_vars

\* SpecKeyword: the matcher under every rule list.
Keywords == {<<"a">>, <<"b">>, <<"A", "b">>}
Mappings == {KeywordMapping(k, p) : k \in Keywords, p \in PersonaIds}
MappingLists == UNION {[1..n -> Mappings] : n \in 0..MaxRules}

InitKeyword ==
    /\ ManageIdle
    /\ CollaboratorsInit
    /\ conf_scoped = ScopedOnlyO1
    /\ keyword_mappings \in MappingLists
    /\ keyword_switch_enabled \in BOOLEAN
    /\ auto_switch_scope = "conversation"
    /\ auto_switch_announce \in BOOLEAN
    /\ clear_context_on_switch = FALSE
    /\ sync_nickname = TRUE
    /\ sync_avatar = FALSE
    /\ avatars = {}

NextKeyword == \E e \in PlainEvents : OnMessage(e)

SpecKeyword == InitKeyword /\ [][NextKeyword]_vars

(***************************************************************************)
(* Claims about the wait sessions (SpecManage)                             *)
(***************************************************************************)
OnChannel(s, chan) == SelectSeq(sessions[s].out, LAMBDA m : m.chan = chan)
Outcomes(s) ==
    SelectSeq(sessions[s].out, LAMBDA m : m.kind \in {"success", "failure", "timeout"})

\* The deadline expired before any next event was delivered to the callback.
ExpiredFirst(s) == sessions[s].fut = "timeout" /\ sessions[s].invoked = 0

\* C1: when the deadline of a create/update session expires before any next
\* event of its origin is delivered, the callback never runs and no
\* create_persona / update_persona call is made for the command; the driver's
\* one remaining step sends the timeout notice, and once it has run the
\* notice is the only message of the session, on the command event's channel.
C1_TimeoutCancelsWithoutMutation ==
    \A s \in SessionIds :
        ExpiredFirst(s) =>
            /\ sessions[s].cb = "none"
            /\ sessions[s].calls = 0 /\ sessions[s].muts = 0
            /\ \A ev \in NextEvents : ~ENABLED WaiterStart(s, ev)
            /\ sessions[s].drv = "waiting" =>
                    sessions[s].out = <<>> /\ ENABLED WaitFor(s)
            /\ sessions[s].drv = "done" =>
                    sessions[s].out = <<Msg("cmd", "timeout")>>

C1_Witness ==
    \E s \in SessionIds :
        /\ ExpiredFirst(s)
        /\ sessions[s].drv = "done"
        /\ sessions[s].mode = "create"
        /\ ~personas[sessions[s].pid].exists

\* The callback of session s raised (a ValueError or any other exception).
CallbackRaised(s) == sessions[s].err # ""

CallbackErrorsNeverReachDriver ==
    \A s \in SessionIds :
        CallbackRaised(s) =>
            /\ sessions[s].muts = 0
            /\ sessions[s].fut # "error"
            /\ \A i \in 1..Len(sessions[s].out) : sessions[s].out[i].kind # "flow_error"
            /\ sessions[s].cb = "reply" => OnChannel(s, "next") = <<>>
            /\ sessions[s].cb \in {"finally", "done"} =>
                    OnChannel(s, "next") = <<Msg("next", "failure")>>
            /\ sessions[s].fut = "result" => OnChannel(s, "cmd") = <<>>

\* C3: the callback of a session runs for at most one next event: when it has
\* run, the session is stopped and no further event can be delivered to it,
\* and one command makes at most one store call and at most one mutation.
C3_CallbackRunsAtMostOnce ==
    \A s \in SessionIds :
        /\ sessions[s].invoked <= 1
        /\ sessions[s].calls <= 1
        /\ sessions[s].muts <= sessions[s].calls
        /\ sessions[s].cb = "done" =>
                /\ sessions[s].fut # "pending"
                /\ \A ev \in NextEvents : ~ENABLED WaiterStart(s, ev)

C3_Witness ==
    \E s \in SessionIds :
        /\ sessions[s].cb = "done"
        /\ sessions[s].invoked = 1
        /\ sessions[s].muts = 1
        /\ sessions[s].fut = "result"

\* The session is over: the driver has finished and no callback is running.
Terminated(s) == sessions[s].drv = "done" /\ sessions[s].cb \in {"none", "done"}

Scanned ==
    /\ lastMsg.umo \in Origins
    /\ lastMsg.text # <<>>
    /\ keyword_switch_enabled
    /\ keyword_mappings # <<>>

\* The rules of the list that match the text, by position.
Matching(text) ==
    {i \in 1..Len(keyword_mappings) : Matches(keyword_mappings[i], text)}

\* The set's least member.
Least(S) == CHOOSE i \in S : \A j \in S : i <= j

\* C5: matching is first-match-wins: when rules of the list match the text of
\* a message, the switch is invoked exactly once, with the persona id and
\* the announcement of the first of them in list order; no rule after it is
\* evaluated; and when that persona exists it is the one the origin is
\* switched to and its announcement is the reply.  When no rule matches the
\* switch is not invoked.
C5_FirstMatchWins ==
    Scanned =>
        LET hits == Matching(lastMsg.text)
        IN  IF hits = {}
            THEN lastMsg.calls = <<>> /\ lastMsg.evaluated = Len(keyword_mappings)
            ELSE LET A == keyword_mappings[Least(hits)]
                 IN  /\ lastMsg.calls = <<[persona_id |-> A.persona_id,
                                           announce |-> Announce(A)]>>
                     /\ lastMsg.evaluated = Least(hits)
                     /\ personas[A.persona_id].exists =>
                            /\ switched[lastMsg.umo] = A.persona_id
                            /\ lastMsg.reply = Announce(A)

\* Two rules with different personas match and the first one was applied.
C5_Witness ==
    /\ Scanned
    /\ Matching(lastMsg.text) = {1, 2}
    /\ keyword_mappings[1].persona_id = "p2"
    /\ keyword_mappings[2].persona_id = "p1"
    /\ keyword_mappings[1].keyword # keyword_mappings[2].keyword
    /\ switched[lastMsg.umo] = "p2"
    /\ auto_switch_announce

\* The last message invoked the switch, with this persona id.
SwitchInvoked == lastMsg.umo \in Origins /\ lastMsg.calls # <<>>
Target == lastMsg.calls[1].persona_id
Switched == SwitchInvoked /\ ~lastMsg.raised

\* C6: a switch to a persona id the store does not hold raises, and the
\* handler run that made it changes nothing: it creates and updates no
\* conversation, leaves the scoped and the global configuration and the
\* profile-sync cache as they were, and calls no profile API - in every scope.
C6_MissingPersonaMutatesNothing ==
    [][(SwitchInvoked /\ ~personas[Target].exists)' =>
            /\ lastMsg'.raised
            /\ lastMsg'.reply = NoAnnounce
            /\ lastMsg'.created = 0 /\ lastMsg'.updated = 0 /\ lastMsg'.pushes = 0
            /\ UNCHANGED <<curr_cid, conversations, conf_scoped, conf_default,
                           last_synced, syncHist, switched>>]_vars

\* A switch to the missing p3 from an origin that was switched before.
C6_Witness ==
    /\ SwitchInvoked
    /\ Target = "p3"
    /\ lastMsg.raised
    /\ switched[lastMsg.umo] = "p1"
    /\ last_synced["qq:1"] = "p1"
    /\ auto_switch_scope = "global"

\* The conversations of an origin, by conversation id.
ConversationsOf(o) ==
    {cid \in 1..Len(conversations) : conversations[cid].umo = o}

\* C7: in scope `conversation`, a switch on an origin without a current
\* conversation creates one conversation and updates none; a switch on an
\* origin with a current conversation updates it and creates none; and an
\* origin that was switched has exactly one conversation, its current one,
\* bound to the persona of its last switch.
C7_ConversationScopeCreatesOnce ==
    auto_switch_scope = "conversation" =>
        /\ Switched =>
                IF lastMsg.had_cid = 0
                THEN lastMsg.created = 1 /\ lastMsg.updated = 0
                ELSE /\ lastMsg.created = 0 /\ lastMsg.updated = 1
                     /\ curr_cid[lastMsg.umo] = lastMsg.had_cid
        /\ \A o \in Origins :
                switched[o] # None =>
                    /\ ConversationsOf(o) = {curr_cid[o]}
                    /\ conversations[curr_cid[o]].persona_id = switched[o]

\* o1 had no conversation; it was switched more than once.
C7_Witness ==
    /\ auto_switch_scope = "conversation"
    /\ Switched
    /\ lastMsg.umo = "o1"
    /\ lastMsg.had_cid # 0
    /\ conversations[curr_cid["o1"]].by_switch
    /\ switched["o1"] = "p2"

\* The switch of the last message updated the origin's current conversation,
\* if it had one, and created none.
ConversationFollows ==
    /\ lastMsg.created = 0
    /\ curr_cid[lastMsg.umo] = lastMsg.had_cid
    /\ IF lastMsg.had_cid = 0 THEN lastMsg.updated = 0
       ELSE /\ lastMsg.updated = 1
            /\ conversations[lastMsg.had_cid].persona_id = Target
            /\ conversations[lastMsg.had_cid].history =
                    IF clear_context_on_switch THEN "empty" ELSE "some"

IsSet(conf) == conf.default_personality = Target /\ conf.saved = Target
Untouched(conf) == conf.default_personality = None /\ conf.saved = None

\* C8 as stated: in scope `session` a successful switch sets and saves
\* default_personality of the origin's scoped configuration, in scope
\* `global` that of the default configuration; in both the current
\* conversation, if any, is updated and none is created.
C8_AsStated ==
    (Switched /\ auto_switch_scope \in {"session", "global"}) =>
        /\ auto_switch_scope = "session" => IsSet(conf_scoped[lastMsg.umo])
        /\ auto_switch_scope = "global" => IsSet(conf_default)
        /\ ConversationFollows

\* C8, amended: in scope `session` a successful switch sets and saves
\* default_personality of the origin's scoped configuration when the origin
\* has one, and sets nothing when it has none; in scope `global` it sets and
\* saves that of the default configuration.  Scope `session` leaves the
\* default configuration alone and scope `global` the scoped ones.  In both
\* scopes the current conversation, if any, is updated (its history cleared
\* exactly when clear_context_on_switch is set) and none is created.
C8_ConfigScopes ==
    (Switched /\ auto_switch_scope \in {"session", "global"}) =>
        /\ auto_switch_scope = "session" =>
                /\ IF conf_scoped[lastMsg.umo].exists
                   THEN IsSet(conf_scoped[lastMsg.umo])
                   ELSE Untouched(conf_scoped[lastMsg.umo])
                /\ Untouched(conf_default)
        /\ auto_switch_scope = "global" =>
                /\ IsSet(conf_default)
                /\ \A o \in Origins : Untouched(conf_scoped[o])
        /\ ConversationFollows

\* Scope `session` on an origin with a scoped configuration and a conversation.
C8_Witness ==
    /\ Switched
    /\ auto_switch_scope = "session"
    /\ lastMsg.umo = "o2"
    /\ conf_scoped["o2"].exists
    /\ conf_scoped["o2"].saved = "p2"
    /\ conversations[1].persona_id = "p2"
    /\ clear_context_on_switch

(***************************************************************************)
(* Claims about the profile sync (SpecSync)                                *)
(***************************************************************************)
\* The bot keys for which maybe_sync_profile reached the cache check.
Synced == {k \in BotKeys : syncHist[k].persona_id # None}

\* C9 as stated: of two consecutive maybe_sync_profile calls for the same bot
\* key and persona id, without force, the second calls no profile API.
C9_AsStated ==
    \A k \in Synced : syncHist[k].prev_same => ~syncHist[k].pushed

\* C9, amended: of two consecutive maybe_sync_profile calls for the same bot
\* key and persona id, without force, the second calls no profile API when
\* the first had a successful nickname or avatar push.
C9_SecondSyncIsNoOp ==
    \A k \in Synced :
        syncHist[k].prev_ok => ~syncHist[k].attempted /\ ~syncHist[k].pushed

C9_Witness ==
    \E k \in Synced :
        /\ syncHist[k].prev_ok
        /\ syncHist[k].persona_id = "p1"
        /\ sync_avatar /\ "p1" \in avatars

\* C10: the cache holds persona p for a bot key only if an earlier call for
\* that key and p had a successful nickname or avatar push; a call without a
\* successful push leaves the entry as it found it and a call with one sets
\* it; and a call that follows, for the same key and persona, a call that got
\* past the cache check without a successful push gets past it too.
C10_CacheOnlyAfterSuccess ==
    \A k \in BotKeys :
        /\ last_synced[k] # None => last_synced[k] \in syncHist[k].ever_ok
        /\ k \in Synced =>
                /\ last_synced[k] = IF syncHist[k].ok THEN syncHist[k].persona_id
                                    ELSE syncHist[k].cache_before
                /\ syncHist[k].prev_failed => syncHist[k].attempted

\* A push failed, the cache kept its old entry, and the retry succeeded.
C10_Witness ==
    \E k \in Synced :
        /\ syncHist[k].prev_failed
        /\ syncHist[k].cache_before = "p2"
        /\ syncHist[k].persona_id = "p1"
        /\ syncHist[k].pushed /\ syncHist[k].ok
        /\ last_synced[k] = "p1"

(***************************************************************************)
(* Specification of deletion, re-creation and the profile sync             *)
(***************************************************************************)
\* SpecPurge: an admin of origin o1 deletes and re-creates personas while
\* messages of a QQ bot switch between them.
PurgeCmdEvents == {e \in CmdEvents : e.umo = "o1" /\ e.sender = "u1"}
PurgeNextEvents ==
    {ev \in NextEvents : ev.umo = "o1" /\ ev.message_str = TxtPlain /\ ev.message = <<>>}
PurgeEvents ==
    {x \in QQEvents({"o1"}, SyncTexts, {"qq:1"}) :
        x.has_set_qq_profile /\ ~x.has_set_qq_avatar /\ x.nick_ok /\ ~x.avatar_ok}

InitPurge ==
    /\ ManageIdle
    /\ CollaboratorsInit
    /\ conf_scoped = ScopedOnlyO1
    /\ keyword_mappings = FixedMappings
    /\ keyword_switch_enabled = TRUE
    /\ auto_switch_scope = "conversation"
    /\ auto_switch_announce = FALSE
    /\ clear_context_on_switch = FALSE
    /\ sync_nickname = TRUE
    /\ sync_avatar = FALSE
    /\ avatars = {}

NextPurge ==
    \/ \E e \in PurgeCmdEvents, p \in ManageIds : CmdDelete(e, p)
    \/ \E e \in PurgeCmdEvents, p \in ManageIds : CmdCreate(e, p)
    \/ \E s \in 1..MaxSessions, ev \in PurgeNextEvents : WaiterStart(s, ev)
    \/ \E s \in 1..MaxSessions : WaiterCheck(s)
    \/ \E s \in 1..MaxSessions : WaiterApply(s, TRUE)
    \/ \E s \in 1..MaxSessions : WaiterReply(s)
    \/ \E s \in 1..MaxSessions : WaiterStop(s)
    \/ \E s \in 1..MaxSessions : Holding(s)
    \/ \E s \in 1..MaxSessions : WaitFor(s)
    \/ \E e \in PurgeEvents : OnMessage(e)

SpecPurge == InitPurge /\ [][NextPurge]_vars

\* C11: deleting a persona purges every profile-sync cache entry that points
\* at it: no cache entry names a persona the store does not hold.  (An entry
\* is written only by a switch to a persona the store holds, and only a
\* delete removes a persona; with the entries purged, the first switch to the
\* re-created persona finds no entry for it and pushes again.)
C11_DeletePurgesCache ==
    \A k \in BotKeys : last_synced[k] # None => personas[last_synced[k]].exists

\* What the code does instead: p1 was synced for the bot, deleted and
\* re-created from new content, and the next switch to p1 stopped at the cache
\* check without a push.
C11_StaleEntrySuppressesPush ==
    /\ personas["p1"].exists /\ personas["p1"] # DefaultPersona
    /\ lastMsg.umo = "o1" /\ lastMsg.calls # <<>>
    /\ lastMsg.calls[1].persona_id = "p1"
    /\ lastMsg.pushes = 0
    /\ syncHist["qq:1"].persona_id = "p1" /\ ~syncHist["qq:1"].attempted
    /\ syncHist["qq:1"].prev_same

(***************************************************************************)
(* Claims about the management commands (SpecGate)                         *)
(***************************************************************************)
\* The caller is flagged admin by the transport, or their id is in the global
\* or in the origin's admin-id list.
CountsAsAdmin(e) ==
    \/ e.is_admin
    \/ e.sender \in conf_default.admins_id
    \/ conf_scoped[e.umo].exists /\ e.sender \in conf_scoped[e.umo].admins_id

Denied == cmdReply'.text = "denied"

\* A denied command yields the requires-admin reply and nothing else.
DeniedChangesNothing ==
    Denied => (~cmdReply'.stopped /\ UNCHANGED <<personas, sessions>>)

\* C12: help, list and view are never denied; create and update are denied
\* exactly when require_admin_for_manage is set and the caller does not count
\* as admin; delete is denied exactly when the caller does not count as
\* admin; and a denied command only yields the requires-admin reply: it
\* leaves the store and the sessions as they were.
C12_PermissionGate ==
    [][\A e \in CmdEvents :
        /\ CmdHelp(e) => ~Denied
        /\ CmdList(e) => ~Denied
        /\ \A p \in ManageIds :
            /\ CmdView(e, p) => ~Denied
            /\ CmdCreate(e, p) =>
                    /\ Denied <=> (require_admin_for_manage /\ ~CountsAsAdmin(e))
                    /\ DeniedChangesNothing
            /\ CmdUpdate(e, p) =>
                    /\ Denied <=> (require_admin_for_manage /\ ~CountsAsAdmin(e))
                    /\ DeniedChangesNothing
            /\ CmdDelete(e, p) =>
                    /\ Denied <=> ~CountsAsAdmin(e)
                    /\ DeniedChangesNothing]_vars

\* With the flag off a delete was denied while a session is pending.
C12_Witness ==
    /\ cmdReply.text = "denied"
    /\ ~require_admin_for_manage
    /\ \E s \in SessionIds : sessions[s].fut = "pending"
    /\ personas["p1"].exists

\* The step started a session: it is the last of the list.
Started == Len(sessions') = Len(sessions) + 1
NewOne == sessions'[Len(sessions')]

\* C13: a session is started only by a command that found the target as it
\* needs it: a create session only for an id the store does not hold, an
\* update session only for an id it holds, with the prompt as the reply and
\* the command's event stopped.  A permitted create of an id the store holds
\* and a permitted update of one it does not hold reply naming the id and
\* leave the sessions and the store as they were.
C13_SessionOnlyAfterValidation ==
    [][/\ Started =>
            /\ sessions' = Append(sessions, NewSession(NewOne.mode, NewOne.umo, NewOne.pid))
            /\ NewOne.mode = "create" => ~personas[NewOne.pid].exists
            /\ NewOne.mode = "update" => personas[NewOne.pid].exists
            /\ cmdReply' = Reply("prompt", "", TRUE)
            /\ UNCHANGED personas
       /\ \A e \in CmdEvents, p \in ManageIds :
            /\ (CmdCreate(e, p) /\ ~Denied /\ personas[p].exists) =>
                    /\ cmdReply' = Reply("exists", p, FALSE)
                    /\ UNCHANGED <<personas, sessions>>
            /\ (CmdUpdate(e, p) /\ ~Denied /\ ~personas[p].exists) =>
                    /\ cmdReply' = Reply("notfound", p, FALSE)
                    /\ UNCHANGED <<personas, sessions>>
            /\ (CmdCreate(e, p) /\ ~Denied /\ ~personas[p].exists) =>
                    Started /\ NewOne.mode = "create" /\ NewOne.pid = p
                    /\ NewOne.umo = e.umo
            /\ (CmdUpdate(e, p) /\ ~Denied /\ personas[p].exists) =>
                    Started /\ NewOne.mode = "update" /\ NewOne.pid = p
                    /\ NewOne.umo = e.umo]_vars

\* An update of p2, which the store does not hold, was refused; and a create
\* of p1, which it holds.
C13_Witness ==
    /\ cmdReply = Reply("notfound", "p2", FALSE)
    /\ ~personas["p2"].exists
    /\ sessions = <<>>
    /\ require_admin_for_manage

(***************************************************************************)
(* Claims about the payload parser (SpecParse)                             *)
(***************************************************************************)
\* The callback of session s was invoked with event ev in this step.
Invoked(s, ev) == WaiterStart(s, ev)
Parsed(s) == sessions'[s].err = ""

\* C14: for a JSON object with a non-empty system_prompt, parsing fails when
\* begin_dialogs is a list of odd length and succeeds, returning the prompt
\* and the list, when it is a list of even length (zero too) or is absent;
\* and every payload the parser returns, for any text, has a non-empty
\* system_prompt and an even number of begin_dialogs.
C14_EvenDialogsOnly ==
    [][\A s \in 1..MaxSessions, ev \in ParseEvents :
        Invoked(s, ev) =>
            LET t == ev.message_str
                n == Len(t.begin_dialogs)
            IN  /\ (t.json = "object" /\ t.system_prompt # ""
                        /\ t.dialogs_kind \in {"absent", "list"}) =>
                        IF n % 2 = 1
                        THEN sessions'[s].err = "odd_begin_dialogs"
                        ELSE /\ Parsed(s)
                             /\ sessions'[s].payload =
                                    [system_prompt |-> t.system_prompt,
                                     begin_dialogs |-> t.begin_dialogs]
                /\ Parsed(s) =>
                        /\ sessions'[s].payload.system_prompt # ""
                        /\ Len(sessions'[s].payload.begin_dialogs) % 2 = 0]_vars

\* A four-entry begin_dialogs went through to the store.
C14_Witness ==
    /\ personas["p2"].exists
    /\ personas["p2"].system_prompt = "X"
    /\ personas["p2"].begin_dialogs = Dialogs(4)

\* C15: a non-blank text that is valid JSON of a non-object type is parsed
\* as plain text: the parser succeeds with the whole trimmed text as
\* system_prompt and no begin_dialogs.
C15_NonObjectJsonIsPlainText ==
    [][\A s \in 1..MaxSessions, ev \in ParseEvents :
        (Invoked(s, ev) /\ ev.message_str.json = "other") =>
            /\ Parsed(s)
            /\ sessions'[s].payload =
                    [system_prompt |-> ev.message_str.stripped,
                     begin_dialogs |-> <<>>]]_vars

\* What the code does instead: the text 42 was refused as "not an object".
C15_NonObjectJsonRefused ==
    \E s \in SessionIds :
        /\ sessions[s].err = "not_object"
        /\ sessions[s].cb = "done"
        /\ sessions[s].out = <<Msg("next", "failure")>>
        /\ sessions[s].muts = 0

(***************************************************************************)
(* _load_config                                                            *)
(***************************************************************************)
\* Configuration texts are sequences of characters.  A value of the
\* configuration is absent, None, a bool, an int, a float (in tenths) or a
\* str.
Absent == [kind |-> "absent"]
NoneVal == [kind |-> "none"]
BoolVal(b) == [kind |-> "bool", b |-> b]
IntVal(n) == [kind |-> "int", n |-> n]
FloatVal(tenths) == [kind |-> "float", tenths |-> tenths]
StrVal(text) == [kind |-> "str", text |-> text]

\* config.get(key, default)
Get(cfg, key, default) == IF cfg[key].kind = "absent" THEN default ELSE cfg[key]

\* bool(value)
ToBool(value) ==
    CASE value.kind = "bool" -> value.b
      [] value.kind = "none" -> FALSE
      [] value.kind = "int" -> value.n # 0
      [] value.kind = "float" -> value.tenths # 0
      [] value.kind = "str" -> value.text # <<>>

\* str.strip
Whitespace == {" ", "\n"}
RECURSIVE LStrip(_)
LStrip(str) ==
    IF str # <<>> /\ Head(str) \in Whitespace THEN LStrip(Tail(str)) ELSE str
RECURSIVE RStrip(_)
RStrip(str) ==
    IF str # <<>> /\ str[Len(str)] \in Whitespace
    THEN RStrip(SubSeq(str, 1, Len(str) - 1))
    ELSE str
Strip(str) == RStrip(LStrip(str))

\* str.find from index i on: the first index of character c, 0 when none.
RECURSIVE Find(_, _, _)
Find(str, c, i) ==
    IF i > Len(str) THEN 0
    ELSE IF str[i] = c THEN i
    ELSE Find(str, c, i + 1)

\* str.partition(sep) and str.split(sep, 1), for a one-character sep
Partition(str, sep) ==
    LET i == Find(str, sep, 1)
    IN  IF i = 0
        THEN [left |-> str, sep |-> <<>>, right |-> <<>>]
        ELSE [left |-> SubSeq(str, 1, i - 1), sep |-> <<sep>>,
              right |-> SubSeq(str, i + 1, Len(str))]

\* str.splitlines
RECURSIVE SplitLines(_)
SplitLines(str) ==
    IF str = <<>> THEN <<>>
    ELSE LET i == Find(str, "\n", 1)
         IN  IF i = 0 THEN <<str>>
             ELSE <<SubSeq(str, 1, i - 1)>> \o SplitLines(SubSeq(str, i + 1, Len(str)))

\* _parse_mapping_entry
ParseMappingEntry(entry) ==
    LET parts == Partition(entry, ":")
        persona_id == Strip(parts.right)
        keyword_part == Strip(parts.left)
        keyword == IF Find(keyword_part, "|", 1) # 0
                   THEN Strip(Partition(keyword_part, "|").right)
                   ELSE keyword_part
    IN  IF parts.sep = <<>> THEN Err("format")
        ELSE IF persona_id = <<>> THEN Err("persona_id")
        ELSE IF keyword = <<>> THEN Err("keyword")
        ELSE Ok(KeywordMapping(keyword, persona_id))

\* Mutant of LoadEntries: the first entry that fails to parse ends the load.
RECURSIVE LoadEntriesAbortOnError(_)
LoadEntriesAbortOnError(entries) ==
    IF entries = <<>> THEN <<>>
    ELSE LET entry == Strip(Head(entries))
         IN  IF entry = <<>> \/ entry[1] = "#"
             THEN LoadEntriesAbortOnError(Tail(entries))
             ELSE IF ParseMappingEntry(entry).ok
                  THEN <<ParseMappingEntry(entry).val>>
                            \o LoadEntriesAbortOnError(Tail(entries))
                  ELSE <<>>

\* _load_config: the loop over the entries.
RECURSIVE LoadEntries(_)
LoadEntries(entries) ==
    IF entries = <<>> THEN <<>>
    ELSE LET entry == Strip(Head(entries))
         IN  IF entry = <<>> \/ entry[1] = "#"
             THEN LoadEntries(Tail(entries))
             ELSE IF ParseMappingEntry(entry).ok
                  THEN <<ParseMappingEntry(entry).val>> \o LoadEntries(Tail(entries))
                  ELSE LoadEntries(Tail(entries))

\* _load_config: keyword_mappings from the raw value.
LoadMappings(mappings_raw) ==
    LET entries == IF mappings_raw.kind = "none" THEN <<>>
                   ELSE SplitLines(mappings_raw.text)
    IN  SelectSeq(LoadEntries(entries),
                  LAMBDA m : m.keyword # <<>> /\ m.persona_id # <<>>)

\* int(value).  Of a str: optional whitespace, an optional sign, decimal
\* digits.
Digits == {"0", "5"}
DigitValue(c) == IF c = "5" THEN 5 ELSE 0
RECURSIVE Decimal(_)
Decimal(ds) ==
    IF ds = <<>> THEN 0
    ELSE Decimal(SubSeq(ds, 1, Len(ds) - 1)) * 10 + DigitValue(ds[Len(ds)])
IntOfStr(text) ==
    LET t == Strip(text)
        neg == t # <<>> /\ t[1] = "-"
        ds == IF neg THEN Tail(t) ELSE t
    IN  IF ds # <<>> /\ \A i \in 1..Len(ds) : ds[i] \in Digits
        THEN Ok(IF neg THEN 0 - Decimal(ds) ELSE Decimal(ds))
        ELSE Err("ValueError")
IntOf(value) ==
    CASE value.kind = "int" -> Ok(value.n)
      [] value.kind = "bool" -> Ok(IF value.b THEN 1 ELSE 0)
      [] value.kind = "float" ->
            Ok(IF value.tenths >= 0 THEN value.tenths \div 10
               ELSE 0 - ((0 - value.tenths) \div 10))
      [] value.kind = "str" -> IntOfStr(value.text)
      [] value.kind = "none" -> Err("TypeError")

\* Mutant of CoerceTimeout: a non-positive value is kept.
CoerceTimeoutUnchecked(raw_timeout) ==
    IF IntOf(raw_timeout).ok THEN IntOf(raw_timeout).val ELSE DefaultTimeout

\* _load_config: manage_wait_timeout from the raw value.
CoerceTimeout(raw_timeout) ==
    LET timeout == IF IntOf(raw_timeout).ok THEN IntOf(raw_timeout).val
                   ELSE DefaultTimeout
    IN  IF timeout <= 0 THEN DefaultTimeout ELSE timeout

\* No configuration (None, or an empty one).
NoConfig == [exists |-> FALSE, kind |-> "none"]

\* A configuration with no key set.
BaseConfig ==
    [exists |-> TRUE, kind |-> "dict",
     keyword_mappings |-> Absent, auto_switch_scope |-> Absent,
     enable_keyword_switching |-> Absent, require_admin_for_manage |-> Absent,
     enable_auto_switch_announce |-> Absent, clear_context_on_switch |-> Absent,
     manage_wait_timeout_seconds |-> Absent, sync_nickname_on_switch |-> Absent,
     sync_avatar_on_switch |-> Absent]

\* _load_config, with QQProfileSync.load_config
LoadConfig ==
    /\ IF ~config.exists
       THEN /\ UNCHANGED <<keyword_mappings, auto_switch_scope, keyword_switch_enabled,
                           require_admin_for_manage, auto_switch_announce,
                           clear_context_on_switch, manage_wait_timeout>>
            /\ sync_nickname' = TRUE
            /\ sync_avatar' = FALSE
       ELSE /\ keyword_mappings' =
                    LoadMappings(Get(config, "keyword_mappings", StrVal(<<>>)))
            /\ auto_switch_scope' =
                    Get(config, "auto_switch_scope", StrVal("conversation")).text
            /\ keyword_switch_enabled' =
                    ToBool(Get(config, "enable_keyword_switching", BoolVal(TRUE)))
            /\ require_admin_for_manage' =
                    ToBool(Get(config, "require_admin_for_manage", BoolVal(FALSE)))
            /\ auto_switch_announce' =
                    ToBool(Get(config, "enable_auto_switch_announce", BoolVal(FALSE)))
            /\ clear_context_on_switch' =
                    ToBool(Get(config, "clear_context_on_switch", BoolVal(FALSE)))
            /\ manage_wait_timeout' =
                    CoerceTimeout(Get(config, "manage_wait_timeout_seconds",
                                      IntVal(DefaultTimeout)))
            /\ sync_nickname' = Get(config, "sync_nickname_on_switch", BoolVal(TRUE)).b
            /\ sync_avatar' = Get(config, "sync_avatar_on_switch", BoolVal(FALSE)).b
    /\ UNCHANGED <<config, personas, sessions, cmdReply, avatars, curr_cid,
                   conversations, conf_scoped, conf_default, last_synced, nickname,
                   syncHist, switched, lastMsg>>

\* SpecConfig: the plugin is constructed with any of the configurations
\* below and loads it.
MaxLineLen == 4       \* characters of a configuration line, any characters
MaxEntryLen == 7      \* characters of a configuration line without # in it
MaxLines == 4         \* lines of a keyword_mappings text
MaxTimeoutLen == 3    \* characters of a manage_wait_timeout_seconds text
MaxTimeout == 5       \* magnitude of an int manage_wait_timeout_seconds

LineChars == {"k", ":", " ", "#", "|"}
EntryChars == {"k", ":", " ", "|"}
ShortLines == UNION {[1..n -> LineChars] : n \in 0..MaxLineLen}
Entries == UNION {[1..n -> EntryChars] : n \in 0..MaxEntryLen}

\* One line of each kind: two rules; no colon; a comment; blank; no persona
\* id; no keyword; a mode prefix and a colon in the persona id; a mode prefix
\* and no keyword.
Lines ==
    {<<"k", ":", "p">>, <<" ", "p", " ", ":", " ", "k", " ">>, <<"k">>,
     <<"#", "k", ":", "p">>, <<>>, <<"k", ":">>, <<":", "p">>,
     <<"m", "|", "k", ":", "p", ":", "p">>, <<"k", "|", ":", "p">>}

\* "\n".join(lines)
RECURSIVE Join(_)
Join(lines) ==
    IF lines = <<>> THEN <<>>
    ELSE IF Len(lines) = 1 THEN lines[1]
    ELSE lines[1] \o <<"\n">> \o Join(Tail(lines))

ConfigTexts ==
    ShortLines \cup Entries
        \cup {Join(ls) : ls \in UNION {[1..n -> Lines] : n \in 2..MaxLines}}

RuleConfigs ==
    {[BaseConfig EXCEPT !.keyword_mappings = v] :
        v \in {NoneVal} \cup {StrVal(t) : t \in ConfigTexts}}

TimeoutChars == {"5", "0", "-", "x", " ", "."}
TimeoutTexts == UNION {[1..n -> TimeoutChars] : n \in 0..MaxTimeoutLen}
RawTimeouts ==
    {Absent, NoneVal, BoolVal(TRUE), BoolVal(FALSE)}
        \cup {IntVal(n) : n \in (0 - MaxTimeout)..MaxTimeout}
        \cup {FloatVal(t) : t \in {0 - 15, 0 - 5, 0, 5, 15, 57}}
        \cup {StrVal(t) : t \in TimeoutTexts}

TimeoutConfigs ==
    {[BaseConfig EXCEPT !.manage_wait_timeout_seconds = v,
                        !.require_admin_for_manage = a] :
        v \in RawTimeouts, a \in {Absent, BoolVal(TRUE)}}

Flags == {Absent, BoolVal(TRUE), BoolVal(FALSE)}
FlagConfigs ==
    {[BaseConfig EXCEPT !.auto_switch_scope = sc,
                        !.enable_keyword_switching = f1,
                        !.require_admin_for_manage = f2,
                        !.enable_auto_switch_announce = f3,
                        !.clear_context_on_switch = f4,
                        !.sync_nickname_on_switch = f5,
                        !.sync_avatar_on_switch = f6] :
        sc \in {Absent, StrVal("session"), StrVal("everywhere")},
        f1 \in Flags, f2 \in Flags, f3 \in Flags, f4 \in Flags,
        f5 \in Flags \ {Absent}, f6 \in Flags \ {Absent}}

Configs == {NoConfig} \cup RuleConfigs \cup TimeoutConfigs \cup FlagConfigs

\* __init__ up to the call of _load_config: the fields have their defaults.
InitConfig ==
    /\ personas = [p \in PersonaIds |-> IF p = "p3" THEN NoPersona ELSE DefaultPersona]
    /\ sessions = <<>>
    /\ cmdReply = NoReply
    /\ config \in Configs
    /\ keyword_mappings = <<>>
    /\ auto_switch_scope = "conversation"
    /\ keyword_switch_enabled = TRUE
    /\ manage_wait_timeout = DefaultTimeout
    /\ require_admin_for_manage = FALSE
    /\ auto_switch_announce = FALSE
    /\ clear_context_on_switch = FALSE
    /\ sync_nickname = TRUE
    /\ sync_avatar = FALSE
    /\ avatars = {}
    /\ conf_scoped = ScopedOnlyO1
    /\ CollaboratorsInit

NextConfig == LoadConfig

SpecConfig == InitConfig /\ [][NextConfig]_vars

(***************************************************************************)
(* Claims about the configuration (SpecConfig)                             *)
(***************************************************************************)
\* A line as the claim reads it: trimmed, split at its first colon, the
\* keyword being what follows a mode prefix.
Trimmed(line) == Strip(line)
Ignored(line) == Trimmed(line) = <<>> \/ Trimmed(line)[1] = "#"
HasColon(line) == \E i \in 1..Len(Trimmed(line)) : Trimmed(line)[i] = ":"
FirstColon(line) ==
    CHOOSE i \in 1..Len(Trimmed(line)) :
        /\ Trimmed(line)[i] = ":"
        /\ \A j \in 1..(i - 1) : Trimmed(line)[j] # ":"
LeftOf(line) == Strip(SubSeq(Trimmed(line), 1, FirstColon(line) - 1))
KeywordOf(line) ==
    IF \E i \in 1..Len(LeftOf(line)) : LeftOf(line)[i] = "|"
    THEN LET bar == CHOOSE i \in 1..Len(LeftOf(line)) :
                        /\ LeftOf(line)[i] = "|"
                        /\ \A j \in 1..(i - 1) : LeftOf(line)[j] # "|"
         IN  Strip(SubSeq(LeftOf(line), bar + 1, Len(LeftOf(line))))
    ELSE LeftOf(line)
PersonaOf(line) ==
    Strip(SubSeq(Trimmed(line), FirstColon(line) + 1, Len(Trimmed(line))))
ValidLine(line) ==
    /\ ~Ignored(line)
    /\ HasColon(line)
    /\ KeywordOf(line) # <<>>
    /\ PersonaOf(line) # <<>>
RulesOf(lines) ==
    LET valid == SelectSeq(lines, ValidLine)
    IN  [i \in 1..Len(valid) |-> KeywordMapping(KeywordOf(valid[i]), PersonaOf(valid[i]))]
ConfiguredText == config.exists /\ config.keyword_mappings.kind = "str"

\* C16: loading a configuration text leaves in keyword_mappings exactly the
\* rules of its valid lines, in the order of the lines: blank lines and
\* #-lines are ignored, a line without a colon, without a keyword or without
\* a persona id is dropped and the load goes on, a line is split at its first
\* colon, and every loaded rule has a keyword and a persona id.
C16_ValidEntriesInOrder ==
    [][(LoadConfig /\ ConfiguredText) =>
            /\ keyword_mappings' = RulesOf(SplitLines(config.keyword_mappings.text))
            /\ \A i \in 1..Len(keyword_mappings') :
                    /\ keyword_mappings'[i].keyword # <<>>
                    /\ keyword_mappings'[i].persona_id # <<>>]_vars

\* The text "k:p", "#k:p", "k", " p : k " was loaded as the rules k:p, p:k.
C16_Witness ==
    /\ ConfiguredText
    /\ config.keyword_mappings.text =
            Join(<<<<"k", ":", "p">>, <<"#", "k", ":", "p">>, <<"k">>,
                   <<" ", "p", " ", ":", " ", "k", " ">>>>)
    /\ keyword_mappings =
            <<KeywordMapping(<<"k">>, <<"p">>), KeywordMapping(<<"p">>, <<"k">>)>>

\* A rule written back as keyword:persona_id.
Serialize(mapping) == mapping.keyword \o <<":">> \o mapping.persona_id

\* C17: every loaded rule, written as keyword:persona_id and parsed again,
\* is the same rule.
C17_RoundTrip ==
    \A i \in 1..Len(keyword_mappings) :
        ParseMappingEntry(Serialize(keyword_mappings[i])) = Ok(keyword_mappings[i])

\* The line k|k|k:k was loaded: its keyword k|k is read back as keyword k.
C17_BarInKeyword ==
    /\ ConfiguredText
    /\ config.keyword_mappings.text = <<"k", "|", "k", "|", "k", ":", "k">>
    /\ keyword_mappings = <<KeywordMapping(<<"k", "|", "k">>, <<"k">>)>>
    /\ ParseMappingEntry(Serialize(keyword_mappings[1])).val.keyword = <<"k">>

\* C18: after the load manage_wait_timeout is a positive integer: the
\* configured value when it converts to a positive integer, and
\* DefaultTimeout when it is absent, does not convert, or converts to zero or
\* less.
C18_TimeoutPositive ==
    [][LoadConfig =>
            /\ manage_wait_timeout' \in Nat \ {0}
            /\ config.exists =>
                LET raw == config.manage_wait_timeout_seconds
                IN  /\ raw.kind \in {"absent", "none"} =>
                            manage_wait_timeout' = DefaultTimeout
                    /\ raw.kind = "int" =>
                            manage_wait_timeout' =
                                IF raw.n > 0 THEN raw.n ELSE DefaultTimeout
                    /\ raw.kind \in {"bool", "float", "str"} =>
                            manage_wait_timeout' =
                                IF IntOf(raw).ok /\ IntOf(raw).val > 0
                                THEN IntOf(raw).val
                                ELSE DefaultTimeout]_vars

\* A configuration with manage_wait_timeout_seconds = -5 was loaded.
C18_Witness ==
    /\ config.exists
    /\ config.manage_wait_timeout_seconds = IntVal(0 - 5)
    /\ require_admin_for_manage
    /\ manage_wait_timeout = DefaultTimeout

(***************************************************************************)
(* Claims about the handler boundary of on_message (SpecSwitch)            *)
(***************************************************************************)
\* C19: an exception of the switch that a keyword match started does not
\* leave on_message: the handler run ends normally and its reply is a failure
\* message.
C19_SwitchErrorsAreReplied ==
    (SwitchInvoked /\ ~personas[Target].exists) =>
        /\ ~lastMsg.raised
        /\ lastMsg.reply.kind = "failure"

\* What the code does instead: the text matched the rule of the missing p3
\* with announcements on, and the run ended by the exception with no reply.
C19_ExceptionLeavesHandler ==
    /\ SwitchInvoked
    /\ Target = "p3"
    /\ auto_switch_announce
    /\ lastMsg.raised
    /\ lastMsg.reply = NoAnnounce

(***************************************************************************)
(* Two sessions at a time (SpecPair)                                       *)
(***************************************************************************)
\* Caller A is u1 on origin o1, caller B is u2 on origin o2.
PairCap == MaxSessions + 1
CallerA == [umo |-> "o1", sender |-> "u1", is_admin |-> FALSE]
CallerB == [umo |-> "o2", sender |-> "u2", is_admin |-> FALSE]
PairCmdEvents == {CallerA, CallerB}
PairNextEvents ==
    {ev \in NextEvents :
        ev.message_str \in {TxtPlain, TxtJsonOk, TxtJsonOdd} /\ ev.message = <<>>}

\* No session was started on the origin of e yet.
FreshOrigin(e) == \A s \in SessionIds : sessions[s].umo # e.umo

InitPair == InitManage /\ ~require_admin_for_manage

NextPair ==
    \/ \E e \in PairCmdEvents, p \in ManageIds :
            FreshOrigin(e) /\ CmdCreateUpTo(PairCap, e, p)
    \/ \E e \in PairCmdEvents, p \in ManageIds :
            FreshOrigin(e) /\ CmdUpdateUpTo(PairCap, e, p)
    \/ \E s \in 1..PairCap, ev \in PairNextEvents : WaiterStart(s, ev)
    \/ \E s \in 1..PairCap : WaiterCheck(s)
    \/ \E s \in 1..PairCap, ok \in BOOLEAN : WaiterApply(s, ok)
    \/ \E s \in 1..PairCap : WaiterReply(s)
    \/ \E s \in 1..PairCap : WaiterStop(s)
    \/ \E s \in 1..PairCap : Holding(s)
    \/ \E s \in 1..PairCap : WaitFor(s)

SpecPair == InitPair /\ [][NextPair]_vars

\* Session s took a step.
Stepped(s) == sessions'[s] # sessions[s]
\* The step was a command that started a session.
StartedOne == Len(sessions') = Len(sessions) + 1
\* The step was the store call of session s.
Applied(s) == sessions[s].cb = "apply" /\ sessions'[s].cb = "reply"

\* C20: sessions of different origins do not touch each other.  A command
\* that starts a session returns at once, its event stopped and the new
\* session waiting, whatever the sessions before it are doing, and leaves
\* them as they were; every later step is the step of one session and leaves
\* the others as they were, a deadline and a failure included; and the store
\* changes only by the store call of a session, for that session's persona id
\* and with that session's content.
C20_SessionsIndependent ==
    [][/\ StartedOne =>
            /\ cmdReply' = Reply("prompt", "", TRUE)
            /\ sessions'[Len(sessions')].fut = "pending"
            /\ sessions'[Len(sessions')].cb = "none"
            /\ \A s \in SessionIds : ~Stepped(s)
            /\ UNCHANGED personas
       /\ ~StartedOne =>
            /\ Len(sessions') = Len(sessions)
            /\ \A s, t \in SessionIds : (Stepped(s) /\ t # s) => ~Stepped(t)
       /\ personas' # personas => \E s \in SessionIds : Applied(s)
       /\ \A s \in SessionIds :
            Applied(s) =>
                personas' = IF sessions'[s].err # "" THEN personas
                            ELSE [personas EXCEPT
                                    ![sessions[s].pid] = Stored(sessions[s].payload)]]_vars

\* A's session on o1 is still waiting for content, and B's, started after it
\* on o2, has updated p1 and replied.
C20_Witness ==
    /\ Len(sessions) = 2
    /\ sessions[1].umo = "o1" /\ sessions[1].mode = "create"
    /\ sessions[1].fut = "pending" /\ sessions[1].cb = "none"
    /\ sessions[2].umo = "o2" /\ sessions[2].mode = "update" /\ sessions[2].pid = "p1"
    /\ sessions[2].drv = "done"
    /\ sessions[2].out = <<Msg("next", "success")>>
    /\ personas["p1"].system_prompt = "hello"

\* A's session has timed out, and B's has applied its content after that.
C20_AfterTimeoutOfA ==
    /\ Len(sessions) = 2
    /\ sessions[1].out = <<Msg("cmd", "timeout")>> /\ sessions[1].muts = 0
    /\ sessions[2].out = <<Msg("next", "success")>> /\ sessions[2].muts = 1

(***************************************************************************)
(* Two create sessions for one persona id (SpecRace)                       *)
(***************************************************************************)
\* Callers A and B both create; the store itself never fails.
NextRace ==
    \/ \E e \in PairCmdEvents, p \in ManageIds :
            FreshOrigin(e) /\ CmdCreateUpTo(PairCap, e, p)
    \/ \E s \in 1..PairCap, ev \in PairNextEvents : WaiterStart(s, ev)
    \/ \E s \in 1..PairCap : WaiterCheck(s)
    \/ \E s \in 1..PairCap : WaiterApply(s, TRUE)
    \/ \E s \in 1..PairCap : WaiterReply(s)
    \/ \E s \in 1..PairCap : WaiterStop(s)
    \/ \E s \in 1..PairCap : Holding(s)
    \/ \E s \in 1..PairCap : WaitFor(s)

SpecRace == InitPair /\ [][NextRace]_vars

\* The create sessions for persona id p.
CreatesOf(p) == {s \in SessionIds : sessions[s].mode = "create" /\ sessions[s].pid = p}
\* The sessions among them that called create_persona, and that replied success.
Called(p) == {s \in CreatesOf(p) : sessions[s].calls > 0}
Succeeded(p) == {s \in CreatesOf(p) : Len(OnChannel(s, "next")) > 0
                                        /\ OnChannel(s, "next")[1].kind = "success"}

\* C21: of the create sessions for one persona id, in every interleaving of
\* their tasks, at most one calls create_persona and at most one replies
\* success.
C21_CreateCalledOnce ==
    \A p \in ManageIds :
        /\ Cardinality(Called(p)) <= 1
        /\ Cardinality(Succeeded(p)) <= 1

\* What the code does instead: both sessions passed the check of
\* _create_persona while p2 was absent, both called create_persona, and the
\* store refused the second call.
C21_BothCalledCreate ==
    /\ Len(sessions) = 2
    /\ CreatesOf("p2") = {1, 2}
    /\ sessions[1].calls = 1 /\ sessions[1].muts = 1
    /\ sessions[1].out = <<Msg("next", "success")>>
    /\ sessions[2].calls = 1 /\ sessions[2].muts = 0
    /\ sessions[2].out = <<Msg("next", "failure")>>
    /\ personas["p2"].system_prompt = "hello"

(***************************************************************************)
(* Claims about the announcement (SpecSwitch)                              *)
(***************************************************************************)
\* The rule whose match invoked the switch, and the announcement the claim
\* asks for: the rule's template, else the generic message when
\* auto_switch_announce is set, else none.
MatchedRule == keyword_mappings[lastMsg.evaluated]
Chosen ==
    IF MatchedRule.reply_template # ""
    THEN [kind |-> "template", template |-> MatchedRule.reply_template,
          persona_id |-> MatchedRule.persona_id]
    ELSE IF auto_switch_announce
    THEN [kind |-> "generic", template |-> "", persona_id |-> MatchedRule.persona_id]
    ELSE NoAnnounce

\* C22: the switch a keyword match invokes is given the announcement chosen
\* in that order; the handler run replies iff an announcement was chosen and
\* the switch succeeded, and the reply is that announcement; and a successful
\* switch without an announcement is still performed.
C22_AnnouncementPriority ==
    SwitchInvoked =>
        /\ lastMsg.calls[1].announce = Chosen
        /\ lastMsg.reply = IF lastMsg.raised THEN NoAnnounce ELSE Chosen
        /\ (lastMsg.reply # NoAnnounce) <=> (Chosen # NoAnnounce /\ ~lastMsg.raised)
        /\ ~lastMsg.raised => switched[lastMsg.umo] = Target

\* With auto_switch_announce set, a switch to p2 on an origin that had a
\* conversation replied the generic message.
C22_Witness ==
    /\ Switched
    /\ Target = "p2"
    /\ auto_switch_announce
    /\ lastMsg.had_cid # 0
    /\ switched[lastMsg.umo] = "p2"
    /\ lastMsg.reply = [kind |-> "generic", template |-> "", persona_id |-> "p2"]

\* With auto_switch_announce off, the same switch was made with no reply.
C22_SilentSwitch ==
    /\ Switched
    /\ Target = "p2"
    /\ ~auto_switch_announce
    /\ switched[lastMsg.umo] = "p2"
    /\ lastMsg.reply = NoAnnounce

(***************************************************************************)
(* QQProfileSync.delete_avatar (SpecAvatar)                                *)
(***************************************************************************)
\* Mutant of ResetPersonaCache: every entry is removed, as clear_cache does.
ResetPersonaCacheAll(cache, persona_id) == [key \in DOMAIN cache |-> None]

\* reset_persona_cache: the entries whose value is persona_id are popped.
ResetPersonaCache(cache, persona_id) ==
    LET to_remove == {key \in DOMAIN cache : cache[key] = persona_id}
    IN  [key \in DOMAIN cache |-> IF key \in to_remove THEN None ELSE cache[key]]

\* delete_avatar
DeleteAvatar(persona_id) ==
    /\ avatars' = IF persona_id \in avatars THEN avatars \ {persona_id} ELSE avatars
    /\ last_synced' = ResetPersonaCache(last_synced, persona_id)
    /\ cmdReply' = NoReply
    /\ UNCHANGED <<personas, sessions, require_admin_for_manage, config,
                   manage_wait_timeout,
                   keyword_mappings, keyword_switch_enabled, auto_switch_scope,
                   auto_switch_announce, clear_context_on_switch, sync_nickname,
                   sync_avatar, curr_cid, conversations, conf_scoped, conf_default,
                   nickname, syncHist, switched, lastMsg>>

\* SpecAvatar: messages of two QQ bots on origin o1 switch between p1 and
\* p2, whose avatars exist, and avatars are deleted.
AvatarEvents ==
    {x \in QQEvents({"o1"}, SyncTexts, BotKeys) :
        x.has_set_qq_profile /\ x.has_set_qq_avatar /\ x.nick_ok = x.avatar_ok}

InitAvatar ==
    /\ ManageIdle
    /\ CollaboratorsInit
    /\ conf_scoped = ScopedOnlyO1
    /\ keyword_mappings = FixedMappings
    /\ keyword_switch_enabled = TRUE
    /\ auto_switch_scope = "conversation"
    /\ auto_switch_announce = FALSE
    /\ clear_context_on_switch = FALSE
    /\ sync_nickname \in BOOLEAN
    /\ sync_avatar = TRUE
    /\ avatars = {"p1", "p2"}

NextAvatar ==
    \/ \E e \in AvatarEvents : OnMessage(e)
    \/ \E p \in PersonaIds : DeleteAvatar(p)

SpecAvatar == InitAvatar /\ [][NextAvatar]_vars

\* C23: delete_avatar(p) removes the avatar of p when there is one, leaves
\* the other avatars, removes from the cache every entry whose value is p and
\* leaves every other entry as it was.
C23_DeleteAvatarPurgesExactly ==
    [][\A p \in PersonaIds :
        DeleteAvatar(p) =>
            /\ p \notin avatars'
            /\ \A q \in PersonaIds \ {p} : q \in avatars' <=> q \in avatars
            /\ \A k \in BotKeys :
                    /\ last_synced'[k] # p
                    /\ last_synced[k] # p => last_synced'[k] = last_synced[k]
                    /\ last_synced[k] = p => last_synced'[k] = None]_vars

\* Only avatars are pushed; the last call for qq:1 pushed the avatar of p1
\* and the last call for qq:2 that of p2; delete_avatar(p1) then removed the
\* file of p1 and the entry of qq:1, and left those of p2.
C23_Witness ==
    /\ ~sync_nickname
    /\ syncHist["qq:1"].persona_id = "p1" /\ syncHist["qq:1"].ok
    /\ syncHist["qq:2"].persona_id = "p2" /\ syncHist["qq:2"].ok
    /\ avatars = {"p2"}
    /\ last_synced["qq:1"] = None
    /\ last_synced["qq:2"] = "p2"

(***************************************************************************)
(* Claims about the cache and the platform (SpecSync, SpecPush)            *)
(***************************************************************************)
\* C24: with nickname sync on, the cache entry of a bot key names the persona
\* whose nickname the platform shows for it, the one of the last successful
\* nickname push.
C24_CacheNamesShownNickname ==
    sync_nickname =>
        \A k \in BotKeys : last_synced[k] # None => nickname[k] = last_synced[k]

\* What the code does instead: the bot shows the nickname of p2; a switch to
\* p1 failed to push the nickname and pushed the avatar, which set the entry
\* to p1; and the next switch to p1 was stopped by the duplicate check.
C24_SuppressedUnderOtherNickname ==
    /\ sync_nickname
    /\ nickname["qq:1"] = "p2"
    /\ last_synced["qq:1"] = "p1"
    /\ syncHist["qq:1"].persona_id = "p1"
    /\ syncHist["qq:1"].prev_ok
    /\ ~syncHist["qq:1"].attempted

\* SpecPush: messages of one QQ bot whose client has set_qq_profile switch
\* both origins between p1 and p2 with announcements on; every push may fail.
PushEvents ==
    {x \in QQEvents(Origins, SyncTexts, {"qq:1"}) : x.has_set_qq_profile}

InitPush ==
    /\ ManageIdle
    /\ CollaboratorsInit
    /\ conf_scoped = ScopedOnlyO1
    /\ keyword_mappings = FixedMappings
    /\ keyword_switch_enabled = TRUE
    /\ auto_switch_scope = "conversation"
    /\ auto_switch_announce = TRUE
    /\ clear_context_on_switch = FALSE
    /\ sync_nickname = TRUE
    /\ sync_avatar \in BOOLEAN
    /\ avatars = {"p1"}

NextPush == \E e \in PushEvents : OnMessage(e)

SpecPush == InitPush /\ [][NextPush]_vars

\* The last call of maybe_sync_profile for the bot, made by the last message.
LastCall == syncHist["qq:1"]
AllPushesFailed == LastCall.attempted /\ LastCall.pushed /\ ~LastCall.ok

\* C25: a switch whose pushes fail is not aborted: it does not raise, the
\* conversation of the origin carries the persona, and the reply is the
\* announcement; the cache is set to the persona only by a successful push,
\* so when every push of the call failed it is what the call found; and the
\* call that follows such a call, for the same persona, pushes again.
C25_FailedPushKeepsSwitch ==
    (SwitchInvoked /\ personas[Target].exists) =>
        /\ ~lastMsg.raised
        /\ switched[lastMsg.umo] = Target
        /\ curr_cid[lastMsg.umo] # 0
        /\ conversations[curr_cid[lastMsg.umo]].persona_id = Target
        /\ lastMsg.created + lastMsg.updated = 1
        /\ lastMsg.reply = [kind |-> "generic", template |-> "", persona_id |-> Target]
        /\ LastCall.persona_id = Target
        /\ last_synced["qq:1"] = IF LastCall.ok THEN Target ELSE LastCall.cache_before
        /\ AllPushesFailed => last_synced["qq:1"] = LastCall.cache_before
        /\ LastCall.prev_failed => (LastCall.attempted /\ LastCall.pushed)

\* Both pushes of a switch to p1 failed while the cache named p2; the switch
\* was made and announced, the cache still names p2, and the call was a
\* retry after a failed call for p1.
C25_Witness ==
    /\ Switched
    /\ Target = "p1"
    /\ sync_avatar
    /\ lastMsg.pushes = 2
    /\ AllPushesFailed
    /\ LastCall.cache_before = "p2"
    /\ last_synced["qq:1"] = "p2"
    /\ lastMsg.reply.kind = "generic"
    /\ lastMsg.umo = "o1"
    /\ conversations[curr_cid["o1"]].persona_id = "p1"

====
